---- MODULE Spec2Model ----
(***************************************************************************)
(* The lacia watcher (apps/cli): a Tailer reading a log file that another  *)
(* process appends to, the trace Reassembler it drives line by line, the   *)
(* Incident channel, and the Delivery goroutine with its duplicate         *)
(* suppressor.  Lines are sequences of one-character strings, so that the  *)
(* classifier predicates, strings.TrimSpace, bufio's ReadString, ToUpper   *)
(* and the SHA-256 digest of hashError are computed as the Go code         *)
(* computes them.  Times are milliseconds since the process started.       *)
(***************************************************************************)
EXTENDS Integers, Sequences, FiniteSets, TLC

(***************************************************************************)
(* Strings                                                                 *)
(***************************************************************************)

\* A character is a one-character string; a character above U+00FF, which
\* a string of the module cannot hold, is the name of its code point.
DotlessI         == "U+0131"
LongS            == "U+017F"
YDiaeresisUpper  == "U+0178"
MuUpper          == "U+039C"

\* The characters unicode.ToUpper changes: every code point of Unicode
\* 14.0 with a simple upper-case mapping (UnicodeData.txt, field 12), from
\* which the CaseRanges of package unicode are made, in code point order.
LowerChars == <<"a", "b", "c", "d", "e", "f", "g", "h", "i", "j", "k", "l",
    "m", "n", "o", "p", "q", "r", "s", "t", "u", "v", "w", "x", "y", "z", "µ",
    "à", "á", "â", "ã", "ä", "å", "æ", "ç", "è", "é", "ê", "ë", "ì", "í", "î",
    "ï", "ð", "ñ", "ò", "ó", "ô", "õ", "ö", "ø", "ù", "ú", "û", "ü", "ý", "þ",
    "ÿ", "U+0101", "U+0103", "U+0105", "U+0107", "U+0109", "U+010B", "U+010D",
    "U+010F", "U+0111", "U+0113", "U+0115", "U+0117", "U+0119", "U+011B",
    "U+011D", "U+011F", "U+0121", "U+0123", "U+0125", "U+0127", "U+0129",
    "U+012B", "U+012D", "U+012F", DotlessI, "U+0133", "U+0135", "U+0137",
    "U+013A", "U+013C", "U+013E", "U+0140", "U+0142", "U+0144", "U+0146",
    "U+0148", "U+014B", "U+014D", "U+014F", "U+0151", "U+0153", "U+0155",
    "U+0157", "U+0159", "U+015B", "U+015D", "U+015F", "U+0161", "U+0163",
    "U+0165", "U+0167", "U+0169", "U+016B", "U+016D", "U+016F", "U+0171",
    "U+0173", "U+0175", "U+0177", "U+017A", "U+017C", "U+017E", LongS,
    "U+0180", "U+0183", "U+0185", "U+0188", "U+018C", "U+0192", "U+0195",
    "U+0199", "U+019A", "U+019E", "U+01A1", "U+01A3", "U+01A5", "U+01A8",
    "U+01AD", "U+01B0", "U+01B4", "U+01B6", "U+01B9", "U+01BD", "U+01BF",
    "U+01C5", "U+01C6", "U+01C8", "U+01C9", "U+01CB", "U+01CC", "U+01CE",
    "U+01D0", "U+01D2", "U+01D4", "U+01D6", "U+01D8", "U+01DA", "U+01DC",
    "U+01DD", "U+01DF", "U+01E1", "U+01E3", "U+01E5", "U+01E7", "U+01E9",
    "U+01EB", "U+01ED", "U+01EF", "U+01F2", "U+01F3", "U+01F5", "U+01F9",
    "U+01FB", "U+01FD", "U+01FF", "U+0201", "U+0203", "U+0205", "U+0207",
    "U+0209", "U+020B", "U+020D", "U+020F", "U+0211", "U+0213", "U+0215",
    "U+0217", "U+0219", "U+021B", "U+021D", "U+021F", "U+0223", "U+0225",
    "U+0227", "U+0229", "U+022B", "U+022D", "U+022F", "U+0231", "U+0233",
    "U+023C", "U+023F", "U+0240", "U+0242", "U+0247", "U+0249", "U+024B",
    "U+024D", "U+024F", "U+0250", "U+0251", "U+0252", "U+0253", "U+0254",
    "U+0256", "U+0257", "U+0259", "U+025B", "U+025C", "U+0260", "U+0261",
    "U+0263", "U+0265", "U+0266", "U+0268", "U+0269", "U+026A", "U+026B",
    "U+026C", "U+026F", "U+0271", "U+0272", "U+0275", "U+027D", "U+0280",
    "U+0282", "U+0283", "U+0287", "U+0288", "U+0289", "U+028A", "U+028B",
    "U+028C", "U+0292", "U+029D", "U+029E", "U+0345", "U+0371", "U+0373",
    "U+0377", "U+037B", "U+037C", "U+037D", "U+03AC", "U+03AD", "U+03AE",
    "U+03AF", "U+03B1", "U+03B2", "U+03B3", "U+03B4", "U+03B5", "U+03B6",
    "U+03B7", "U+03B8", "U+03B9", "U+03BA", "U+03BB", "U+03BC", "U+03BD",
    "U+03BE", "U+03BF", "U+03C0", "U+03C1", "U+03C2", "U+03C3", "U+03C4",
    "U+03C5", "U+03C6", "U+03C7", "U+03C8", "U+03C9", "U+03CA", "U+03CB",
    "U+03CC", "U+03CD", "U+03CE", "U+03D0", "U+03D1", "U+03D5", "U+03D6",
    "U+03D7", "U+03D9", "U+03DB", "U+03DD", "U+03DF", "U+03E1", "U+03E3",
    "U+03E5", "U+03E7", "U+03E9", "U+03EB", "U+03ED", "U+03EF", "U+03F0",
    "U+03F1", "U+03F2", "U+03F3", "U+03F5", "U+03F8", "U+03FB", "U+0430",
    "U+0431", "U+0432", "U+0433", "U+0434", "U+0435", "U+0436", "U+0437",
    "U+0438", "U+0439", "U+043A", "U+043B", "U+043C", "U+043D", "U+043E",
    "U+043F", "U+0440", "U+0441", "U+0442", "U+0443", "U+0444", "U+0445",
    "U+0446", "U+0447", "U+0448", "U+0449", "U+044A", "U+044B", "U+044C",
    "U+044D", "U+044E", "U+044F", "U+0450", "U+0451", "U+0452", "U+0453",
    "U+0454", "U+0455", "U+0456", "U+0457", "U+0458", "U+0459", "U+045A",
    "U+045B", "U+045C", "U+045D", "U+045E", "U+045F", "U+0461", "U+0463",
    "U+0465", "U+0467", "U+0469", "U+046B", "U+046D", "U+046F", "U+0471",
    "U+0473", "U+0475", "U+0477", "U+0479", "U+047B", "U+047D", "U+047F",
    "U+0481", "U+048B", "U+048D", "U+048F", "U+0491", "U+0493", "U+0495",
    "U+0497", "U+0499", "U+049B", "U+049D", "U+049F", "U+04A1", "U+04A3",
    "U+04A5", "U+04A7", "U+04A9", "U+04AB", "U+04AD", "U+04AF", "U+04B1",
    "U+04B3", "U+04B5", "U+04B7", "U+04B9", "U+04BB", "U+04BD", "U+04BF",
    "U+04C2", "U+04C4", "U+04C6", "U+04C8", "U+04CA", "U+04CC", "U+04CE",
    "U+04CF", "U+04D1", "U+04D3", "U+04D5", "U+04D7", "U+04D9", "U+04DB",
    "U+04DD", "U+04DF", "U+04E1", "U+04E3", "U+04E5", "U+04E7", "U+04E9",
    "U+04EB", "U+04ED", "U+04EF", "U+04F1", "U+04F3", "U+04F5", "U+04F7",
    "U+04F9", "U+04FB", "U+04FD", "U+04FF", "U+0501", "U+0503", "U+0505",
    "U+0507", "U+0509", "U+050B", "U+050D", "U+050F", "U+0511", "U+0513",
    "U+0515", "U+0517", "U+0519", "U+051B", "U+051D", "U+051F", "U+0521",
    "U+0523", "U+0525", "U+0527", "U+0529", "U+052B", "U+052D", "U+052F",
    "U+0561", "U+0562", "U+0563", "U+0564", "U+0565", "U+0566", "U+0567",
    "U+0568", "U+0569", "U+056A", "U+056B", "U+056C", "U+056D", "U+056E",
    "U+056F", "U+0570", "U+0571", "U+0572", "U+0573", "U+0574", "U+0575",
    "U+0576", "U+0577", "U+0578", "U+0579", "U+057A", "U+057B", "U+057C",
    "U+057D", "U+057E", "U+057F", "U+0580", "U+0581", "U+0582", "U+0583",
    "U+0584", "U+0585", "U+0586", "U+10D0", "U+10D1", "U+10D2", "U+10D3",
    "U+10D4", "U+10D5", "U+10D6", "U+10D7", "U+10D8", "U+10D9", "U+10DA",
    "U+10DB", "U+10DC", "U+10DD", "U+10DE", "U+10DF", "U+10E0", "U+10E1",
    "U+10E2", "U+10E3", "U+10E4", "U+10E5", "U+10E6", "U+10E7", "U+10E8",
    "U+10E9", "U+10EA", "U+10EB", "U+10EC", "U+10ED", "U+10EE", "U+10EF",
    "U+10F0", "U+10F1", "U+10F2", "U+10F3", "U+10F4", "U+10F5", "U+10F6",
    "U+10F7", "U+10F8", "U+10F9", "U+10FA", "U+10FD", "U+10FE", "U+10FF",
    "U+13F8", "U+13F9", "U+13FA", "U+13FB", "U+13FC", "U+13FD", "U+1C80",
    "U+1C81", "U+1C82", "U+1C83", "U+1C84", "U+1C85", "U+1C86", "U+1C87",
    "U+1C88", "U+1D79", "U+1D7D", "U+1D8E", "U+1E01", "U+1E03", "U+1E05",
    "U+1E07", "U+1E09", "U+1E0B", "U+1E0D", "U+1E0F", "U+1E11", "U+1E13",
    "U+1E15", "U+1E17", "U+1E19", "U+1E1B", "U+1E1D", "U+1E1F", "U+1E21",
    "U+1E23", "U+1E25", "U+1E27", "U+1E29", "U+1E2B", "U+1E2D", "U+1E2F",
    "U+1E31", "U+1E33", "U+1E35", "U+1E37", "U+1E39", "U+1E3B", "U+1E3D",
    "U+1E3F", "U+1E41", "U+1E43", "U+1E45", "U+1E47", "U+1E49", "U+1E4B",
    "U+1E4D", "U+1E4F", "U+1E51", "U+1E53", "U+1E55", "U+1E57", "U+1E59",
    "U+1E5B", "U+1E5D", "U+1E5F", "U+1E61", "U+1E63", "U+1E65", "U+1E67",
    "U+1E69", "U+1E6B", "U+1E6D", "U+1E6F", "U+1E71", "U+1E73", "U+1E75",
    "U+1E77", "U+1E79", "U+1E7B", "U+1E7D", "U+1E7F", "U+1E81", "U+1E83",
    "U+1E85", "U+1E87", "U+1E89", "U+1E8B", "U+1E8D", "U+1E8F", "U+1E91",
    "U+1E93", "U+1E95", "U+1E9B", "U+1EA1", "U+1EA3", "U+1EA5", "U+1EA7",
    "U+1EA9", "U+1EAB", "U+1EAD", "U+1EAF", "U+1EB1", "U+1EB3", "U+1EB5",
    "U+1EB7", "U+1EB9", "U+1EBB", "U+1EBD", "U+1EBF", "U+1EC1", "U+1EC3",
    "U+1EC5", "U+1EC7", "U+1EC9", "U+1ECB", "U+1ECD", "U+1ECF", "U+1ED1",
    "U+1ED3", "U+1ED5", "U+1ED7", "U+1ED9", "U+1EDB", "U+1EDD", "U+1EDF",
    "U+1EE1", "U+1EE3", "U+1EE5", "U+1EE7", "U+1EE9", "U+1EEB", "U+1EED",
    "U+1EEF", "U+1EF1", "U+1EF3", "U+1EF5", "U+1EF7", "U+1EF9", "U+1EFB",
    "U+1EFD", "U+1EFF", "U+1F00", "U+1F01", "U+1F02", "U+1F03", "U+1F04",
    "U+1F05", "U+1F06", "U+1F07", "U+1F10", "U+1F11", "U+1F12", "U+1F13",
    "U+1F14", "U+1F15", "U+1F20", "U+1F21", "U+1F22", "U+1F23", "U+1F24",
    "U+1F25", "U+1F26", "U+1F27", "U+1F30", "U+1F31", "U+1F32", "U+1F33",
    "U+1F34", "U+1F35", "U+1F36", "U+1F37", "U+1F40", "U+1F41", "U+1F42",
    "U+1F43", "U+1F44", "U+1F45", "U+1F51", "U+1F53", "U+1F55", "U+1F57",
    "U+1F60", "U+1F61", "U+1F62", "U+1F63", "U+1F64", "U+1F65", "U+1F66",
    "U+1F67", "U+1F70", "U+1F71", "U+1F72", "U+1F73", "U+1F74", "U+1F75",
    "U+1F76", "U+1F77", "U+1F78", "U+1F79", "U+1F7A", "U+1F7B", "U+1F7C",
    "U+1F7D", "U+1F80", "U+1F81", "U+1F82", "U+1F83", "U+1F84", "U+1F85",
    "U+1F86", "U+1F87", "U+1F90", "U+1F91", "U+1F92", "U+1F93", "U+1F94",
    "U+1F95", "U+1F96", "U+1F97", "U+1FA0", "U+1FA1", "U+1FA2", "U+1FA3",
    "U+1FA4", "U+1FA5", "U+1FA6", "U+1FA7", "U+1FB0", "U+1FB1", "U+1FB3",
    "U+1FBE", "U+1FC3", "U+1FD0", "U+1FD1", "U+1FE0", "U+1FE1", "U+1FE5",
    "U+1FF3", "U+214E", "U+2170", "U+2171", "U+2172", "U+2173", "U+2174",
    "U+2175", "U+2176", "U+2177", "U+2178", "U+2179", "U+217A", "U+217B",
    "U+217C", "U+217D", "U+217E", "U+217F", "U+2184", "U+24D0", "U+24D1",
    "U+24D2", "U+24D3", "U+24D4", "U+24D5", "U+24D6", "U+24D7", "U+24D8",
    "U+24D9", "U+24DA", "U+24DB", "U+24DC", "U+24DD", "U+24DE", "U+24DF",
    "U+24E0", "U+24E1", "U+24E2", "U+24E3", "U+24E4", "U+24E5", "U+24E6",
    "U+24E7", "U+24E8", "U+24E9", "U+2C30", "U+2C31", "U+2C32", "U+2C33",
    "U+2C34", "U+2C35", "U+2C36", "U+2C37", "U+2C38", "U+2C39", "U+2C3A",
    "U+2C3B", "U+2C3C", "U+2C3D", "U+2C3E", "U+2C3F", "U+2C40", "U+2C41",
    "U+2C42", "U+2C43", "U+2C44", "U+2C45", "U+2C46", "U+2C47", "U+2C48",
    "U+2C49", "U+2C4A", "U+2C4B", "U+2C4C", "U+2C4D", "U+2C4E", "U+2C4F",
    "U+2C50", "U+2C51", "U+2C52", "U+2C53", "U+2C54", "U+2C55", "U+2C56",
    "U+2C57", "U+2C58", "U+2C59", "U+2C5A", "U+2C5B", "U+2C5C", "U+2C5D",
    "U+2C5E", "U+2C5F", "U+2C61", "U+2C65", "U+2C66", "U+2C68", "U+2C6A",
    "U+2C6C", "U+2C73", "U+2C76", "U+2C81", "U+2C83", "U+2C85", "U+2C87",
    "U+2C89", "U+2C8B", "U+2C8D", "U+2C8F", "U+2C91", "U+2C93", "U+2C95",
    "U+2C97", "U+2C99", "U+2C9B", "U+2C9D", "U+2C9F", "U+2CA1", "U+2CA3",
    "U+2CA5", "U+2CA7", "U+2CA9", "U+2CAB", "U+2CAD", "U+2CAF", "U+2CB1",
    "U+2CB3", "U+2CB5", "U+2CB7", "U+2CB9", "U+2CBB", "U+2CBD", "U+2CBF",
    "U+2CC1", "U+2CC3", "U+2CC5", "U+2CC7", "U+2CC9", "U+2CCB", "U+2CCD",
    "U+2CCF", "U+2CD1", "U+2CD3", "U+2CD5", "U+2CD7", "U+2CD9", "U+2CDB",
    "U+2CDD", "U+2CDF", "U+2CE1", "U+2CE3", "U+2CEC", "U+2CEE", "U+2CF3",
    "U+2D00", "U+2D01", "U+2D02", "U+2D03", "U+2D04", "U+2D05", "U+2D06",
    "U+2D07", "U+2D08", "U+2D09", "U+2D0A", "U+2D0B", "U+2D0C", "U+2D0D",
    "U+2D0E", "U+2D0F", "U+2D10", "U+2D11", "U+2D12", "U+2D13", "U+2D14",
    "U+2D15", "U+2D16", "U+2D17", "U+2D18", "U+2D19", "U+2D1A", "U+2D1B",
    "U+2D1C", "U+2D1D", "U+2D1E", "U+2D1F", "U+2D20", "U+2D21", "U+2D22",
    "U+2D23", "U+2D24", "U+2D25", "U+2D27", "U+2D2D", "U+A641", "U+A643",
    "U+A645", "U+A647", "U+A649", "U+A64B", "U+A64D", "U+A64F", "U+A651",
    "U+A653", "U+A655", "U+A657", "U+A659", "U+A65B", "U+A65D", "U+A65F",
    "U+A661", "U+A663", "U+A665", "U+A667", "U+A669", "U+A66B", "U+A66D",
    "U+A681", "U+A683", "U+A685", "U+A687", "U+A689", "U+A68B", "U+A68D",
    "U+A68F", "U+A691", "U+A693", "U+A695", "U+A697", "U+A699", "U+A69B",
    "U+A723", "U+A725", "U+A727", "U+A729", "U+A72B", "U+A72D", "U+A72F",
    "U+A733", "U+A735", "U+A737", "U+A739", "U+A73B", "U+A73D", "U+A73F",
    "U+A741", "U+A743", "U+A745", "U+A747", "U+A749", "U+A74B", "U+A74D",
    "U+A74F", "U+A751", "U+A753", "U+A755", "U+A757", "U+A759", "U+A75B",
    "U+A75D", "U+A75F", "U+A761", "U+A763", "U+A765", "U+A767", "U+A769",
    "U+A76B", "U+A76D", "U+A76F", "U+A77A", "U+A77C", "U+A77F", "U+A781",
    "U+A783", "U+A785", "U+A787", "U+A78C", "U+A791", "U+A793", "U+A794",
    "U+A797", "U+A799", "U+A79B", "U+A79D", "U+A79F", "U+A7A1", "U+A7A3",
    "U+A7A5", "U+A7A7", "U+A7A9", "U+A7B5", "U+A7B7", "U+A7B9", "U+A7BB",
    "U+A7BD", "U+A7BF", "U+A7C1", "U+A7C3", "U+A7C8", "U+A7CA", "U+A7D1",
    "U+A7D7", "U+A7D9", "U+A7F6", "U+AB53", "U+AB70", "U+AB71", "U+AB72",
    "U+AB73", "U+AB74", "U+AB75", "U+AB76", "U+AB77", "U+AB78", "U+AB79",
    "U+AB7A", "U+AB7B", "U+AB7C", "U+AB7D", "U+AB7E", "U+AB7F", "U+AB80",
    "U+AB81", "U+AB82", "U+AB83", "U+AB84", "U+AB85", "U+AB86", "U+AB87",
    "U+AB88", "U+AB89", "U+AB8A", "U+AB8B", "U+AB8C", "U+AB8D", "U+AB8E",
    "U+AB8F", "U+AB90", "U+AB91", "U+AB92", "U+AB93", "U+AB94", "U+AB95",
    "U+AB96", "U+AB97", "U+AB98", "U+AB99", "U+AB9A", "U+AB9B", "U+AB9C",
    "U+AB9D", "U+AB9E", "U+AB9F", "U+ABA0", "U+ABA1", "U+ABA2", "U+ABA3",
    "U+ABA4", "U+ABA5", "U+ABA6", "U+ABA7", "U+ABA8", "U+ABA9", "U+ABAA",
    "U+ABAB", "U+ABAC", "U+ABAD", "U+ABAE", "U+ABAF", "U+ABB0", "U+ABB1",
    "U+ABB2", "U+ABB3", "U+ABB4", "U+ABB5", "U+ABB6", "U+ABB7", "U+ABB8",
    "U+ABB9", "U+ABBA", "U+ABBB", "U+ABBC", "U+ABBD", "U+ABBE", "U+ABBF",
    "U+FF41", "U+FF42", "U+FF43", "U+FF44", "U+FF45", "U+FF46", "U+FF47",
    "U+FF48", "U+FF49", "U+FF4A", "U+FF4B", "U+FF4C", "U+FF4D", "U+FF4E",
    "U+FF4F", "U+FF50", "U+FF51", "U+FF52", "U+FF53", "U+FF54", "U+FF55",
    "U+FF56", "U+FF57", "U+FF58", "U+FF59", "U+FF5A", "U+10428", "U+10429",
    "U+1042A", "U+1042B", "U+1042C", "U+1042D", "U+1042E", "U+1042F",
    "U+10430", "U+10431", "U+10432", "U+10433", "U+10434", "U+10435",
    "U+10436", "U+10437", "U+10438", "U+10439", "U+1043A", "U+1043B",
    "U+1043C", "U+1043D", "U+1043E", "U+1043F", "U+10440", "U+10441",
    "U+10442", "U+10443", "U+10444", "U+10445", "U+10446", "U+10447",
    "U+10448", "U+10449", "U+1044A", "U+1044B", "U+1044C", "U+1044D",
    "U+1044E", "U+1044F", "U+104D8", "U+104D9", "U+104DA", "U+104DB",
    "U+104DC", "U+104DD", "U+104DE", "U+104DF", "U+104E0", "U+104E1",
    "U+104E2", "U+104E3", "U+104E4", "U+104E5", "U+104E6", "U+104E7",
    "U+104E8", "U+104E9", "U+104EA", "U+104EB", "U+104EC", "U+104ED",
    "U+104EE", "U+104EF", "U+104F0", "U+104F1", "U+104F2", "U+104F3",
    "U+104F4", "U+104F5", "U+104F6", "U+104F7", "U+104F8", "U+104F9",
    "U+104FA", "U+104FB", "U+10597", "U+10598", "U+10599", "U+1059A",
    "U+1059B", "U+1059C", "U+1059D", "U+1059E", "U+1059F", "U+105A0",
    "U+105A1", "U+105A3", "U+105A4", "U+105A5", "U+105A6", "U+105A7",
    "U+105A8", "U+105A9", "U+105AA", "U+105AB", "U+105AC", "U+105AD",
    "U+105AE", "U+105AF", "U+105B0", "U+105B1", "U+105B3", "U+105B4",
    "U+105B5", "U+105B6", "U+105B7", "U+105B8", "U+105B9", "U+105BB",
    "U+105BC", "U+10CC0", "U+10CC1", "U+10CC2", "U+10CC3", "U+10CC4",
    "U+10CC5", "U+10CC6", "U+10CC7", "U+10CC8", "U+10CC9", "U+10CCA",
    "U+10CCB", "U+10CCC", "U+10CCD", "U+10CCE", "U+10CCF", "U+10CD0",
    "U+10CD1", "U+10CD2", "U+10CD3", "U+10CD4", "U+10CD5", "U+10CD6",
    "U+10CD7", "U+10CD8", "U+10CD9", "U+10CDA", "U+10CDB", "U+10CDC",
    "U+10CDD", "U+10CDE", "U+10CDF", "U+10CE0", "U+10CE1", "U+10CE2",
    "U+10CE3", "U+10CE4", "U+10CE5", "U+10CE6", "U+10CE7", "U+10CE8",
    "U+10CE9", "U+10CEA", "U+10CEB", "U+10CEC", "U+10CED", "U+10CEE",
    "U+10CEF", "U+10CF0", "U+10CF1", "U+10CF2", "U+118C0", "U+118C1",
    "U+118C2", "U+118C3", "U+118C4", "U+118C5", "U+118C6", "U+118C7",
    "U+118C8", "U+118C9", "U+118CA", "U+118CB", "U+118CC", "U+118CD",
    "U+118CE", "U+118CF", "U+118D0", "U+118D1", "U+118D2", "U+118D3",
    "U+118D4", "U+118D5", "U+118D6", "U+118D7", "U+118D8", "U+118D9",
    "U+118DA", "U+118DB", "U+118DC", "U+118DD", "U+118DE", "U+118DF",
    "U+16E60", "U+16E61", "U+16E62", "U+16E63", "U+16E64", "U+16E65",
    "U+16E66", "U+16E67", "U+16E68", "U+16E69", "U+16E6A", "U+16E6B",
    "U+16E6C", "U+16E6D", "U+16E6E", "U+16E6F", "U+16E70", "U+16E71",
    "U+16E72", "U+16E73", "U+16E74", "U+16E75", "U+16E76", "U+16E77",
    "U+16E78", "U+16E79", "U+16E7A", "U+16E7B", "U+16E7C", "U+16E7D",
    "U+16E7E", "U+16E7F", "U+1E922", "U+1E923", "U+1E924", "U+1E925",
    "U+1E926", "U+1E927", "U+1E928", "U+1E929", "U+1E92A", "U+1E92B",
    "U+1E92C", "U+1E92D", "U+1E92E", "U+1E92F", "U+1E930", "U+1E931",
    "U+1E932", "U+1E933", "U+1E934", "U+1E935", "U+1E936", "U+1E937",
    "U+1E938", "U+1E939", "U+1E93A", "U+1E93B", "U+1E93C", "U+1E93D",
    "U+1E93E", "U+1E93F", "U+1E940", "U+1E941", "U+1E942", "U+1E943">>

\* Their upper case, in the same order.
UpperChars == <<"A", "B", "C", "D", "E", "F", "G", "H", "I", "J", "K", "L",
    "M", "N", "O", "P", "Q", "R", "S", "T", "U", "V", "W", "X", "Y", "Z",
    MuUpper, "À", "Á", "Â", "Ã", "Ä", "Å", "Æ", "Ç", "È", "É", "Ê", "Ë", "Ì",
    "Í", "Î", "Ï", "Ð", "Ñ", "Ò", "Ó", "Ô", "Õ", "Ö", "Ø", "Ù", "Ú", "Û", "Ü",
    "Ý", "Þ", YDiaeresisUpper, "U+0100", "U+0102", "U+0104", "U+0106",
    "U+0108", "U+010A", "U+010C", "U+010E", "U+0110", "U+0112", "U+0114",
    "U+0116", "U+0118", "U+011A", "U+011C", "U+011E", "U+0120", "U+0122",
    "U+0124", "U+0126", "U+0128", "U+012A", "U+012C", "U+012E", "I", "U+0132",
    "U+0134", "U+0136", "U+0139", "U+013B", "U+013D", "U+013F", "U+0141",
    "U+0143", "U+0145", "U+0147", "U+014A", "U+014C", "U+014E", "U+0150",
    "U+0152", "U+0154", "U+0156", "U+0158", "U+015A", "U+015C", "U+015E",
    "U+0160", "U+0162", "U+0164", "U+0166", "U+0168", "U+016A", "U+016C",
    "U+016E", "U+0170", "U+0172", "U+0174", "U+0176", "U+0179", "U+017B",
    "U+017D", "S", "U+0243", "U+0182", "U+0184", "U+0187", "U+018B", "U+0191",
    "U+01F6", "U+0198", "U+023D", "U+0220", "U+01A0", "U+01A2", "U+01A4",
    "U+01A7", "U+01AC", "U+01AF", "U+01B3", "U+01B5", "U+01B8", "U+01BC",
    "U+01F7", "U+01C4", "U+01C4", "U+01C7", "U+01C7", "U+01CA", "U+01CA",
    "U+01CD", "U+01CF", "U+01D1", "U+01D3", "U+01D5", "U+01D7", "U+01D9",
    "U+01DB", "U+018E", "U+01DE", "U+01E0", "U+01E2", "U+01E4", "U+01E6",
    "U+01E8", "U+01EA", "U+01EC", "U+01EE", "U+01F1", "U+01F1", "U+01F4",
    "U+01F8", "U+01FA", "U+01FC", "U+01FE", "U+0200", "U+0202", "U+0204",
    "U+0206", "U+0208", "U+020A", "U+020C", "U+020E", "U+0210", "U+0212",
    "U+0214", "U+0216", "U+0218", "U+021A", "U+021C", "U+021E", "U+0222",
    "U+0224", "U+0226", "U+0228", "U+022A", "U+022C", "U+022E", "U+0230",
    "U+0232", "U+023B", "U+2C7E", "U+2C7F", "U+0241", "U+0246", "U+0248",
    "U+024A", "U+024C", "U+024E", "U+2C6F", "U+2C6D", "U+2C70", "U+0181",
    "U+0186", "U+0189", "U+018A", "U+018F", "U+0190", "U+A7AB", "U+0193",
    "U+A7AC", "U+0194", "U+A78D", "U+A7AA", "U+0197", "U+0196", "U+A7AE",
    "U+2C62", "U+A7AD", "U+019C", "U+2C6E", "U+019D", "U+019F", "U+2C64",
    "U+01A6", "U+A7C5", "U+01A9", "U+A7B1", "U+01AE", "U+0244", "U+01B1",
    "U+01B2", "U+0245", "U+01B7", "U+A7B2", "U+A7B0", "U+0399", "U+0370",
    "U+0372", "U+0376", "U+03FD", "U+03FE", "U+03FF", "U+0386", "U+0388",
    "U+0389", "U+038A", "U+0391", "U+0392", "U+0393", "U+0394", "U+0395",
    "U+0396", "U+0397", "U+0398", "U+0399", "U+039A", "U+039B", MuUpper,
    "U+039D", "U+039E", "U+039F", "U+03A0", "U+03A1", "U+03A3", "U+03A3",
    "U+03A4", "U+03A5", "U+03A6", "U+03A7", "U+03A8", "U+03A9", "U+03AA",
    "U+03AB", "U+038C", "U+038E", "U+038F", "U+0392", "U+0398", "U+03A6",
    "U+03A0", "U+03CF", "U+03D8", "U+03DA", "U+03DC", "U+03DE", "U+03E0",
    "U+03E2", "U+03E4", "U+03E6", "U+03E8", "U+03EA", "U+03EC", "U+03EE",
    "U+039A", "U+03A1", "U+03F9", "U+037F", "U+0395", "U+03F7", "U+03FA",
    "U+0410", "U+0411", "U+0412", "U+0413", "U+0414", "U+0415", "U+0416",
    "U+0417", "U+0418", "U+0419", "U+041A", "U+041B", "U+041C", "U+041D",
    "U+041E", "U+041F", "U+0420", "U+0421", "U+0422", "U+0423", "U+0424",
    "U+0425", "U+0426", "U+0427", "U+0428", "U+0429", "U+042A", "U+042B",
    "U+042C", "U+042D", "U+042E", "U+042F", "U+0400", "U+0401", "U+0402",
    "U+0403", "U+0404", "U+0405", "U+0406", "U+0407", "U+0408", "U+0409",
    "U+040A", "U+040B", "U+040C", "U+040D", "U+040E", "U+040F", "U+0460",
    "U+0462", "U+0464", "U+0466", "U+0468", "U+046A", "U+046C", "U+046E",
    "U+0470", "U+0472", "U+0474", "U+0476", "U+0478", "U+047A", "U+047C",
    "U+047E", "U+0480", "U+048A", "U+048C", "U+048E", "U+0490", "U+0492",
    "U+0494", "U+0496", "U+0498", "U+049A", "U+049C", "U+049E", "U+04A0",
    "U+04A2", "U+04A4", "U+04A6", "U+04A8", "U+04AA", "U+04AC", "U+04AE",
    "U+04B0", "U+04B2", "U+04B4", "U+04B6", "U+04B8", "U+04BA", "U+04BC",
    "U+04BE", "U+04C1", "U+04C3", "U+04C5", "U+04C7", "U+04C9", "U+04CB",
    "U+04CD", "U+04C0", "U+04D0", "U+04D2", "U+04D4", "U+04D6", "U+04D8",
    "U+04DA", "U+04DC", "U+04DE", "U+04E0", "U+04E2", "U+04E4", "U+04E6",
    "U+04E8", "U+04EA", "U+04EC", "U+04EE", "U+04F0", "U+04F2", "U+04F4",
    "U+04F6", "U+04F8", "U+04FA", "U+04FC", "U+04FE", "U+0500", "U+0502",
    "U+0504", "U+0506", "U+0508", "U+050A", "U+050C", "U+050E", "U+0510",
    "U+0512", "U+0514", "U+0516", "U+0518", "U+051A", "U+051C", "U+051E",
    "U+0520", "U+0522", "U+0524", "U+0526", "U+0528", "U+052A", "U+052C",
    "U+052E", "U+0531", "U+0532", "U+0533", "U+0534", "U+0535", "U+0536",
    "U+0537", "U+0538", "U+0539", "U+053A", "U+053B", "U+053C", "U+053D",
    "U+053E", "U+053F", "U+0540", "U+0541", "U+0542", "U+0543", "U+0544",
    "U+0545", "U+0546", "U+0547", "U+0548", "U+0549", "U+054A", "U+054B",
    "U+054C", "U+054D", "U+054E", "U+054F", "U+0550", "U+0551", "U+0552",
    "U+0553", "U+0554", "U+0555", "U+0556", "U+1C90", "U+1C91", "U+1C92",
    "U+1C93", "U+1C94", "U+1C95", "U+1C96", "U+1C97", "U+1C98", "U+1C99",
    "U+1C9A", "U+1C9B", "U+1C9C", "U+1C9D", "U+1C9E", "U+1C9F", "U+1CA0",
    "U+1CA1", "U+1CA2", "U+1CA3", "U+1CA4", "U+1CA5", "U+1CA6", "U+1CA7",
    "U+1CA8", "U+1CA9", "U+1CAA", "U+1CAB", "U+1CAC", "U+1CAD", "U+1CAE",
    "U+1CAF", "U+1CB0", "U+1CB1", "U+1CB2", "U+1CB3", "U+1CB4", "U+1CB5",
    "U+1CB6", "U+1CB7", "U+1CB8", "U+1CB9", "U+1CBA", "U+1CBD", "U+1CBE",
    "U+1CBF", "U+13F0", "U+13F1", "U+13F2", "U+13F3", "U+13F4", "U+13F5",
    "U+0412", "U+0414", "U+041E", "U+0421", "U+0422", "U+0422", "U+042A",
    "U+0462", "U+A64A", "U+A77D", "U+2C63", "U+A7C6", "U+1E00", "U+1E02",
    "U+1E04", "U+1E06", "U+1E08", "U+1E0A", "U+1E0C", "U+1E0E", "U+1E10",
    "U+1E12", "U+1E14", "U+1E16", "U+1E18", "U+1E1A", "U+1E1C", "U+1E1E",
    "U+1E20", "U+1E22", "U+1E24", "U+1E26", "U+1E28", "U+1E2A", "U+1E2C",
    "U+1E2E", "U+1E30", "U+1E32", "U+1E34", "U+1E36", "U+1E38", "U+1E3A",
    "U+1E3C", "U+1E3E", "U+1E40", "U+1E42", "U+1E44", "U+1E46", "U+1E48",
    "U+1E4A", "U+1E4C", "U+1E4E", "U+1E50", "U+1E52", "U+1E54", "U+1E56",
    "U+1E58", "U+1E5A", "U+1E5C", "U+1E5E", "U+1E60", "U+1E62", "U+1E64",
    "U+1E66", "U+1E68", "U+1E6A", "U+1E6C", "U+1E6E", "U+1E70", "U+1E72",
    "U+1E74", "U+1E76", "U+1E78", "U+1E7A", "U+1E7C", "U+1E7E", "U+1E80",
    "U+1E82", "U+1E84", "U+1E86", "U+1E88", "U+1E8A", "U+1E8C", "U+1E8E",
    "U+1E90", "U+1E92", "U+1E94", "U+1E60", "U+1EA0", "U+1EA2", "U+1EA4",
    "U+1EA6", "U+1EA8", "U+1EAA", "U+1EAC", "U+1EAE", "U+1EB0", "U+1EB2",
    "U+1EB4", "U+1EB6", "U+1EB8", "U+1EBA", "U+1EBC", "U+1EBE", "U+1EC0",
    "U+1EC2", "U+1EC4", "U+1EC6", "U+1EC8", "U+1ECA", "U+1ECC", "U+1ECE",
    "U+1ED0", "U+1ED2", "U+1ED4", "U+1ED6", "U+1ED8", "U+1EDA", "U+1EDC",
    "U+1EDE", "U+1EE0", "U+1EE2", "U+1EE4", "U+1EE6", "U+1EE8", "U+1EEA",
    "U+1EEC", "U+1EEE", "U+1EF0", "U+1EF2", "U+1EF4", "U+1EF6", "U+1EF8",
    "U+1EFA", "U+1EFC", "U+1EFE", "U+1F08", "U+1F09", "U+1F0A", "U+1F0B",
    "U+1F0C", "U+1F0D", "U+1F0E", "U+1F0F", "U+1F18", "U+1F19", "U+1F1A",
    "U+1F1B", "U+1F1C", "U+1F1D", "U+1F28", "U+1F29", "U+1F2A", "U+1F2B",
    "U+1F2C", "U+1F2D", "U+1F2E", "U+1F2F", "U+1F38", "U+1F39", "U+1F3A",
    "U+1F3B", "U+1F3C", "U+1F3D", "U+1F3E", "U+1F3F", "U+1F48", "U+1F49",
    "U+1F4A", "U+1F4B", "U+1F4C", "U+1F4D", "U+1F59", "U+1F5B", "U+1F5D",
    "U+1F5F", "U+1F68", "U+1F69", "U+1F6A", "U+1F6B", "U+1F6C", "U+1F6D",
    "U+1F6E", "U+1F6F", "U+1FBA", "U+1FBB", "U+1FC8", "U+1FC9", "U+1FCA",
    "U+1FCB", "U+1FDA", "U+1FDB", "U+1FF8", "U+1FF9", "U+1FEA", "U+1FEB",
    "U+1FFA", "U+1FFB", "U+1F88", "U+1F89", "U+1F8A", "U+1F8B", "U+1F8C",
    "U+1F8D", "U+1F8E", "U+1F8F", "U+1F98", "U+1F99", "U+1F9A", "U+1F9B",
    "U+1F9C", "U+1F9D", "U+1F9E", "U+1F9F", "U+1FA8", "U+1FA9", "U+1FAA",
    "U+1FAB", "U+1FAC", "U+1FAD", "U+1FAE", "U+1FAF", "U+1FB8", "U+1FB9",
    "U+1FBC", "U+0399", "U+1FCC", "U+1FD8", "U+1FD9", "U+1FE8", "U+1FE9",
    "U+1FEC", "U+1FFC", "U+2132", "U+2160", "U+2161", "U+2162", "U+2163",
    "U+2164", "U+2165", "U+2166", "U+2167", "U+2168", "U+2169", "U+216A",
    "U+216B", "U+216C", "U+216D", "U+216E", "U+216F", "U+2183", "U+24B6",
    "U+24B7", "U+24B8", "U+24B9", "U+24BA", "U+24BB", "U+24BC", "U+24BD",
    "U+24BE", "U+24BF", "U+24C0", "U+24C1", "U+24C2", "U+24C3", "U+24C4",
    "U+24C5", "U+24C6", "U+24C7", "U+24C8", "U+24C9", "U+24CA", "U+24CB",
    "U+24CC", "U+24CD", "U+24CE", "U+24CF", "U+2C00", "U+2C01", "U+2C02",
    "U+2C03", "U+2C04", "U+2C05", "U+2C06", "U+2C07", "U+2C08", "U+2C09",
    "U+2C0A", "U+2C0B", "U+2C0C", "U+2C0D", "U+2C0E", "U+2C0F", "U+2C10",
    "U+2C11", "U+2C12", "U+2C13", "U+2C14", "U+2C15", "U+2C16", "U+2C17",
    "U+2C18", "U+2C19", "U+2C1A", "U+2C1B", "U+2C1C", "U+2C1D", "U+2C1E",
    "U+2C1F", "U+2C20", "U+2C21", "U+2C22", "U+2C23", "U+2C24", "U+2C25",
    "U+2C26", "U+2C27", "U+2C28", "U+2C29", "U+2C2A", "U+2C2B", "U+2C2C",
    "U+2C2D", "U+2C2E", "U+2C2F", "U+2C60", "U+023A", "U+023E", "U+2C67",
    "U+2C69", "U+2C6B", "U+2C72", "U+2C75", "U+2C80", "U+2C82", "U+2C84",
    "U+2C86", "U+2C88", "U+2C8A", "U+2C8C", "U+2C8E", "U+2C90", "U+2C92",
    "U+2C94", "U+2C96", "U+2C98", "U+2C9A", "U+2C9C", "U+2C9E", "U+2CA0",
    "U+2CA2", "U+2CA4", "U+2CA6", "U+2CA8", "U+2CAA", "U+2CAC", "U+2CAE",
    "U+2CB0", "U+2CB2", "U+2CB4", "U+2CB6", "U+2CB8", "U+2CBA", "U+2CBC",
    "U+2CBE", "U+2CC0", "U+2CC2", "U+2CC4", "U+2CC6", "U+2CC8", "U+2CCA",
    "U+2CCC", "U+2CCE", "U+2CD0", "U+2CD2", "U+2CD4", "U+2CD6", "U+2CD8",
    "U+2CDA", "U+2CDC", "U+2CDE", "U+2CE0", "U+2CE2", "U+2CEB", "U+2CED",
    "U+2CF2", "U+10A0", "U+10A1", "U+10A2", "U+10A3", "U+10A4", "U+10A5",
    "U+10A6", "U+10A7", "U+10A8", "U+10A9", "U+10AA", "U+10AB", "U+10AC",
    "U+10AD", "U+10AE", "U+10AF", "U+10B0", "U+10B1", "U+10B2", "U+10B3",
    "U+10B4", "U+10B5", "U+10B6", "U+10B7", "U+10B8", "U+10B9", "U+10BA",
    "U+10BB", "U+10BC", "U+10BD", "U+10BE", "U+10BF", "U+10C0", "U+10C1",
    "U+10C2", "U+10C3", "U+10C4", "U+10C5", "U+10C7", "U+10CD", "U+A640",
    "U+A642", "U+A644", "U+A646", "U+A648", "U+A64A", "U+A64C", "U+A64E",
    "U+A650", "U+A652", "U+A654", "U+A656", "U+A658", "U+A65A", "U+A65C",
    "U+A65E", "U+A660", "U+A662", "U+A664", "U+A666", "U+A668", "U+A66A",
    "U+A66C", "U+A680", "U+A682", "U+A684", "U+A686", "U+A688", "U+A68A",
    "U+A68C", "U+A68E", "U+A690", "U+A692", "U+A694", "U+A696", "U+A698",
    "U+A69A", "U+A722", "U+A724", "U+A726", "U+A728", "U+A72A", "U+A72C",
    "U+A72E", "U+A732", "U+A734", "U+A736", "U+A738", "U+A73A", "U+A73C",
    "U+A73E", "U+A740", "U+A742", "U+A744", "U+A746", "U+A748", "U+A74A",
    "U+A74C", "U+A74E", "U+A750", "U+A752", "U+A754", "U+A756", "U+A758",
    "U+A75A", "U+A75C", "U+A75E", "U+A760", "U+A762", "U+A764", "U+A766",
    "U+A768", "U+A76A", "U+A76C", "U+A76E", "U+A779", "U+A77B", "U+A77E",
    "U+A780", "U+A782", "U+A784", "U+A786", "U+A78B", "U+A790", "U+A792",
    "U+A7C4", "U+A796", "U+A798", "U+A79A", "U+A79C", "U+A79E", "U+A7A0",
    "U+A7A2", "U+A7A4", "U+A7A6", "U+A7A8", "U+A7B4", "U+A7B6", "U+A7B8",
    "U+A7BA", "U+A7BC", "U+A7BE", "U+A7C0", "U+A7C2", "U+A7C7", "U+A7C9",
    "U+A7D0", "U+A7D6", "U+A7D8", "U+A7F5", "U+A7B3", "U+13A0", "U+13A1",
    "U+13A2", "U+13A3", "U+13A4", "U+13A5", "U+13A6", "U+13A7", "U+13A8",
    "U+13A9", "U+13AA", "U+13AB", "U+13AC", "U+13AD", "U+13AE", "U+13AF",
    "U+13B0", "U+13B1", "U+13B2", "U+13B3", "U+13B4", "U+13B5", "U+13B6",
    "U+13B7", "U+13B8", "U+13B9", "U+13BA", "U+13BB", "U+13BC", "U+13BD",
    "U+13BE", "U+13BF", "U+13C0", "U+13C1", "U+13C2", "U+13C3", "U+13C4",
    "U+13C5", "U+13C6", "U+13C7", "U+13C8", "U+13C9", "U+13CA", "U+13CB",
    "U+13CC", "U+13CD", "U+13CE", "U+13CF", "U+13D0", "U+13D1", "U+13D2",
    "U+13D3", "U+13D4", "U+13D5", "U+13D6", "U+13D7", "U+13D8", "U+13D9",
    "U+13DA", "U+13DB", "U+13DC", "U+13DD", "U+13DE", "U+13DF", "U+13E0",
    "U+13E1", "U+13E2", "U+13E3", "U+13E4", "U+13E5", "U+13E6", "U+13E7",
    "U+13E8", "U+13E9", "U+13EA", "U+13EB", "U+13EC", "U+13ED", "U+13EE",
    "U+13EF", "U+FF21", "U+FF22", "U+FF23", "U+FF24", "U+FF25", "U+FF26",
    "U+FF27", "U+FF28", "U+FF29", "U+FF2A", "U+FF2B", "U+FF2C", "U+FF2D",
    "U+FF2E", "U+FF2F", "U+FF30", "U+FF31", "U+FF32", "U+FF33", "U+FF34",
    "U+FF35", "U+FF36", "U+FF37", "U+FF38", "U+FF39", "U+FF3A", "U+10400",
    "U+10401", "U+10402", "U+10403", "U+10404", "U+10405", "U+10406",
    "U+10407", "U+10408", "U+10409", "U+1040A", "U+1040B", "U+1040C",
    "U+1040D", "U+1040E", "U+1040F", "U+10410", "U+10411", "U+10412",
    "U+10413", "U+10414", "U+10415", "U+10416", "U+10417", "U+10418",
    "U+10419", "U+1041A", "U+1041B", "U+1041C", "U+1041D", "U+1041E",
    "U+1041F", "U+10420", "U+10421", "U+10422", "U+10423", "U+10424",
    "U+10425", "U+10426", "U+10427", "U+104B0", "U+104B1", "U+104B2",
    "U+104B3", "U+104B4", "U+104B5", "U+104B6", "U+104B7", "U+104B8",
    "U+104B9", "U+104BA", "U+104BB", "U+104BC", "U+104BD", "U+104BE",
    "U+104BF", "U+104C0", "U+104C1", "U+104C2", "U+104C3", "U+104C4",
    "U+104C5", "U+104C6", "U+104C7", "U+104C8", "U+104C9", "U+104CA",
    "U+104CB", "U+104CC", "U+104CD", "U+104CE", "U+104CF", "U+104D0",
    "U+104D1", "U+104D2", "U+104D3", "U+10570", "U+10571", "U+10572",
    "U+10573", "U+10574", "U+10575", "U+10576", "U+10577", "U+10578",
    "U+10579", "U+1057A", "U+1057C", "U+1057D", "U+1057E", "U+1057F",
    "U+10580", "U+10581", "U+10582", "U+10583", "U+10584", "U+10585",
    "U+10586", "U+10587", "U+10588", "U+10589", "U+1058A", "U+1058C",
    "U+1058D", "U+1058E", "U+1058F", "U+10590", "U+10591", "U+10592",
    "U+10594", "U+10595", "U+10C80", "U+10C81", "U+10C82", "U+10C83",
    "U+10C84", "U+10C85", "U+10C86", "U+10C87", "U+10C88", "U+10C89",
    "U+10C8A", "U+10C8B", "U+10C8C", "U+10C8D", "U+10C8E", "U+10C8F",
    "U+10C90", "U+10C91", "U+10C92", "U+10C93", "U+10C94", "U+10C95",
    "U+10C96", "U+10C97", "U+10C98", "U+10C99", "U+10C9A", "U+10C9B",
    "U+10C9C", "U+10C9D", "U+10C9E", "U+10C9F", "U+10CA0", "U+10CA1",
    "U+10CA2", "U+10CA3", "U+10CA4", "U+10CA5", "U+10CA6", "U+10CA7",
    "U+10CA8", "U+10CA9", "U+10CAA", "U+10CAB", "U+10CAC", "U+10CAD",
    "U+10CAE", "U+10CAF", "U+10CB0", "U+10CB1", "U+10CB2", "U+118A0",
    "U+118A1", "U+118A2", "U+118A3", "U+118A4", "U+118A5", "U+118A6",
    "U+118A7", "U+118A8", "U+118A9", "U+118AA", "U+118AB", "U+118AC",
    "U+118AD", "U+118AE", "U+118AF", "U+118B0", "U+118B1", "U+118B2",
    "U+118B3", "U+118B4", "U+118B5", "U+118B6", "U+118B7", "U+118B8",
    "U+118B9", "U+118BA", "U+118BB", "U+118BC", "U+118BD", "U+118BE",
    "U+118BF", "U+16E40", "U+16E41", "U+16E42", "U+16E43", "U+16E44",
    "U+16E45", "U+16E46", "U+16E47", "U+16E48", "U+16E49", "U+16E4A",
    "U+16E4B", "U+16E4C", "U+16E4D", "U+16E4E", "U+16E4F", "U+16E50",
    "U+16E51", "U+16E52", "U+16E53", "U+16E54", "U+16E55", "U+16E56",
    "U+16E57", "U+16E58", "U+16E59", "U+16E5A", "U+16E5B", "U+16E5C",
    "U+16E5D", "U+16E5E", "U+16E5F", "U+1E900", "U+1E901", "U+1E902",
    "U+1E903", "U+1E904", "U+1E905", "U+1E906", "U+1E907", "U+1E908",
    "U+1E909", "U+1E90A", "U+1E90B", "U+1E90C", "U+1E90D", "U+1E90E",
    "U+1E90F", "U+1E910", "U+1E911", "U+1E912", "U+1E913", "U+1E914",
    "U+1E915", "U+1E916", "U+1E917", "U+1E918", "U+1E919", "U+1E91A",
    "U+1E91B", "U+1E91C", "U+1E91D", "U+1E91E", "U+1E91F", "U+1E920",
    "U+1E921">>

LowerCharSet == {LowerChars[i] : i \in 1..Len(LowerChars)}

\* unicode.ToUpper on one character: the characters of LowerChars are
\* mapped, every other character is its own upper case (a letter without
\* a simple upper-case mapping, U+00DF for one, included).
UpperChar(c) ==
    IF c \in LowerCharSet
    THEN UpperChars[CHOOSE i \in 1..Len(LowerChars) : LowerChars[i] = c]
    ELSE c

\* strings.ToUpper: unicode.ToUpper of every character of a string of
\* valid UTF-8.
ToUpper(s) == [i \in 1..Len(s) |-> UpperChar(s[i])]

\* strings.HasPrefix
HasPrefix(s, prefix) ==
    /\ Len(s) >= Len(prefix)
    /\ \A i \in 1..Len(prefix) : s[i] = prefix[i]

\* strings.HasSuffix
HasSuffix(s, suffix) ==
    /\ Len(s) >= Len(suffix)
    /\ \A i \in 1..Len(suffix) : s[Len(s) - Len(suffix) + i] = suffix[i]

\* strings.TrimSuffix
TrimSuffix(s, suffix) ==
    IF HasSuffix(s, suffix) THEN SubSeq(s, 1, Len(s) - Len(suffix)) ELSE s

\* strings.Contains
Contains(s, substr) ==
    \E k \in 0..(Len(s) - Len(substr)) :
        \A i \in 1..Len(substr) : s[k + i] = substr[i]

\* The vertical tab U+000B, next line U+0085 and the no-break space U+00A0.
VerticalTab  == ""
NextLine     == ""
NoBreakSpace == " "

\* The characters strings.TrimSpace removes (unicode.IsSpace): the six of
\* ASCII, the two of Latin-1 and the Unicode space separators.
WhiteSpace ==
    {"\t", "\n", VerticalTab, "\f", "\r", " ", NextLine, NoBreakSpace,
     "U+1680", "U+2000", "U+2001", "U+2002", "U+2003", "U+2004", "U+2005",
     "U+2006", "U+2007", "U+2008", "U+2009", "U+200A", "U+2028", "U+2029",
     "U+202F", "U+205F", "U+3000"}

\* strings.TrimSpace: the slice between the first and the last character
\* that is not white space; empty when there is none.
TrimSpace(s) ==
    LET keep == {i \in 1..Len(s) : s[i] \notin WhiteSpace}
    IN  IF keep = {} THEN <<>>
        ELSE LET lo == CHOOSE i \in keep : \A j \in keep : i <= j
                 hi == CHOOSE i \in keep : \A j \in keep : j <= i
             IN  SubSeq(s, lo, hi)

(***************************************************************************)
(* Line classifier                                                         *)
(***************************************************************************)

errorPatterns ==
    <<
       <<"E","R","R","O","R">>,
       <<"F","A","T","A","L">>,
       <<"C","R","I","T","I","C","A","L">>,
       <<"S","E","V","E","R","E">>,
       <<"E","M","E","R","G","E","N","C","Y">>,
       <<"E","x","c","e","p","t","i","o","n">>,
       <<"p","a","n","i","c">>,
       <<"T","r","a","c","e","b","a","c","k">>,
       <<"U","n","c","a","u","g","h","t">>,
       <<"C","a","u","s","e","d"," ","b","y",":">>,
       <<"S","t","a","c","k"," ","t","r","a","c","e",":">>,
       <<"S","t","a","c","k","t","r","a","c","e",":">>,
       <<"a","t"," ","c","o","m",".">>,
       <<"a","t"," ","o","r","g",".">>,
       <<"a","t"," ","j","a","v","a",".">>,
       <<"a","t"," ","s","u","n",".">>,
       <<"g","o","r","o","u","t","i","n","e">>,
       <<"r","u","n","t","i","m","e"," ","e","r","r","o","r",":">>,
       <<"r","a","i","s","e"," ">>,
       <<"A","s","s","e","r","t","i","o","n","E","r","r","o","r">>,
       <<"A","t","t","r","i","b","u","t","e","E","r","r","o","r">>,
       <<"I","m","p","o","r","t","E","r","r","o","r">>,
       <<"K","e","y","E","r","r","o","r">>,
       <<"V","a","l","u","e","E","r","r","o","r">>,
       <<"I","n","d","e","n","t","a","t","i","o","n","E","r","r","o","r">>,
       <<"T","y","p","e","E","r","r","o","r">>,
       <<"R","e","f","e","r","e","n","c","e","E","r","r","o","r">>,
       <<"S","y","n","t","a","x","E","r","r","o","r">>,
       <<"R","a","n","g","e","E","r","r","o","r">>,
       <<"U","n","h","a","n","d","l","e","d","P","r","o","m","i","s","e","R","e","j","e","c","t","i","o","n">>,
       <<"E","C","O","N","N","R","E","F","U","S","E","D">>,
       <<"E","N","O","T","F","O","U","N","D">>,
       <<"N","u","l","l","P","o","i","n","t","e","r","E","x","c","e","p","t","i","o","n">>,
       <<"C","l","a","s","s","N","o","t","F","o","u","n","d","E","x","c","e","p","t","i","o","n">>,
       <<"O","u","t","O","f","M","e","m","o","r","y","E","r","r","o","r">>,
       <<"S","t","a","c","k","O","v","e","r","f","l","o","w","E","r","r","o","r">>,
       <<"R","u","n","t","i","m","e","E","r","r","o","r">>,
       <<"N","o","M","e","t","h","o","d","E","r","r","o","r">>,
       <<"u","n","d","e","f","i","n","e","d"," ","m","e","t","h","o","d">>,
       <<"t","h","r","e","a","d"," ","'","m","a","i","n","'"," ","p","a","n","i","c","k","e","d">>,
       <<"t","h","r","e","a","d"," ","'","t","o","k","i","o","'"," ","p","a","n","i","c","k","e","d">>,
       <<"F","a","t","a","l"," ","e","r","r","o","r",":">>,
       <<"P","a","r","s","e"," ","e","r","r","o","r",":">>,
       <<"W","a","r","n","i","n","g",":">>,
       <<"U","n","h","a","n","d","l","e","d"," ","e","x","c","e","p","t","i","o","n">>,
       <<"S","y","s","t","e","m",".","E","x","c","e","p","t","i","o","n">>,
       <<"S","y","s","t","e","m",".","N","u","l","l","R","e","f","e","r","e","n","c","e","E","x","c","e","p","t","i","o","n">>,
       <<"S","e","g","m","e","n","t","a","t","i","o","n"," ","f","a","u","l","t">>,
       <<"c","o","r","e"," ","d","u","m","p","e","d">>,
       <<"S","I","G","S","E","G","V">>,
       <<"S","I","G","A","B","R","T">>,
       <<"k","i","l","l","e","d">>,
       <<"O","O","M">>,
       <<"5","0","0"," ","I","n","t","e","r","n","a","l"," ","S","e","r","v","e","r"," ","E","r","r","o","r">>,
       <<"5","0","2"," ","B","a","d"," ","G","a","t","e","w","a","y">>,
       <<"5","0","3"," ","S","e","r","v","i","c","e"," ","U","n","a","v","a","i","l","a","b","l","e">>,
       <<"5","0","4"," ","G","a","t","e","w","a","y"," ","T","i","m","e","o","u","t">>,
       <<"d","e","a","d","l","o","c","k">>,
       <<"c","o","n","n","e","c","t","i","o","n"," ","r","e","f","u","s","e","d">>,
       <<"c","o","n","n","e","c","t","i","o","n"," ","t","i","m","e","d"," ","o","u","t">>
    >>

traceStartMarkers ==
    <<
       <<"T","r","a","c","e","b","a","c","k">>,
       <<"E","x","c","e","p","t","i","o","n"," ","i","n"," ","t","h","r","e","a","d">>,
       <<"g","o","r","o","u","t","i","n","e">>,
       <<"p","a","n","i","c",":">>,
       <<"E","r","r","o","r",":">>,
       <<"E","R","R","O","R",":">>,
       <<"F","A","T","A","L",":">>,
       <<"C","a","u","s","e","d"," ","b","y",":">>,
       <<"S","t","a","c","k"," ","t","r","a","c","e",":">>,
       <<"S","t","a","c","k","t","r","a","c","e",":">>,
       <<"U","n","h","a","n","d","l","e","d">>,
       <<"T","h","r","e","a","d">>,
       <<"P","r","o","c","e","s","s">>
    >>

traceContMarkers ==
    <<
       <<"a","t"," ">>,
       <<" "," "," "," ","a","t"," ">>,
       <<"\t","a","t"," ">>,
       <<"F","i","l","e"," ","\"">>,
       <<" "," ","F","i","l","e"," ","\"">>,
       <<" "," "," "," ">>,
       <<"\t">>,
       <<"^">>,
       <<".",".",".">>
    >>

\* The patterns upper-cased, as isErrorLine compares them.
upperPatterns == [i \in 1..Len(errorPatterns) |-> ToUpper(errorPatterns[i])]

LineOOM    == <<"O","O","M">>
LineOk     == <<"o","k">>
LineCaret  == <<"^">>
LineThread == <<"T","h","r","e","a","d">>
LinePanic  == <<"p","a","n","i","c",":">>

\* Two error lines whose SHA-256 digests begin with the same eight bytes,
\* 389d5c547b34342b: hashError gives both the same hash.
LineCollideA == <<"O","O","M"," ","6","4","c","8","4","1","d","0","f","5","c","3","8","8","4","7">>
LineCollideB == <<"O","O","M"," ","0","8","7","7","e","7","b","a","e","1","2","3","c","c","8","0">>

\* Lines the external writer appends in Spec: an error line, a benign line,
\* a continuation marker, a trace-start marker that is no error line, and
\* an error line that is a trace-start marker.
RawLines == {LineOOM, LineOk, LineCaret, LineThread, LinePanic}

\* The pattern loop of isErrorLine.
matchesErrorPattern(line) ==
    LET upper == ToUpper(line)
    IN  \E i \in 1..Len(upperPatterns) : Contains(upper, upperPatterns[i])

\* The lines isErrorLine is asked about most.
MemoLines == RawLines \cup {LineCollideA, LineCollideB}

\* isErrorLine is pure: its value on these lines is computed once by the
\* pattern loop and looked up afterwards.
errorLineMemo == {l \in MemoLines : matchesErrorPattern(l)}

isErrorLine(line) ==
    IF line \in MemoLines
    THEN line \in errorLineMemo
    ELSE matchesErrorPattern(line)

isTraceStart(line) ==
    \E i \in 1..Len(traceStartMarkers) : Contains(line, traceStartMarkers[i])

\* isTraceContinuation with a slip: the prefixes only.
isTraceContinuationMarkersOnly(line) ==
    \E i \in 1..Len(traceContMarkers) : HasPrefix(line, traceContMarkers[i])

isTraceContinuation(line) ==
    \/ \E i \in 1..Len(traceContMarkers) : HasPrefix(line, traceContMarkers[i])
    \/ isErrorLine(line)

(***************************************************************************)
(* Program constants                                                       *)
(***************************************************************************)

bufferSize == 50

\* Milliseconds.
traceDuration == 300

cooldownDuration == 30000

\* Capacity of the events channel.
ChanCap == 100

\* The zero time.Time (1 January of year 1), far before the process start.
ZeroTime == -1000000000

(***************************************************************************)
(* Bounds of the model                                                     *)
(***************************************************************************)

\* Lines the external writer appends in Spec.
MaxWrites == 3

\* Clock advances.
MaxTicks == 1

\* Bytes the external writer appends in SpecTail.
MaxBytes == 5

\* Length of the Buffer the Reassembler starts from in SpecStart.
MaxPrefill == 12

\* Error lines the external writer appends in SpecStart.
MaxWritesS == 1

\* Lines the external writer appends in SpecDelivery.
MaxWritesD == 3

\* Clock advances in SpecDelivery.
MaxTicksD == 3

\* Lines the external writer appends in SpecBackPressure.
MaxWritesB == 6

\* Clock advances in SpecCooldown.
MaxTicksC == 4

\* Lines the external writer appends in SpecRun.
MaxRun == 201

\* Lines the external writer appends in SpecCollision.
MaxWritesK == 2

\* Clock advances in SpecCollision.
MaxTicksK == 2

\* Lines the external writer appends in SpecUnending.
MaxWritesU == 12

(***************************************************************************)
(* State                                                                   *)
(***************************************************************************)

VARIABLES
    unread,         \* bytes appended to the log file that ReadString has not yet consumed
    w,              \* the Watcher: lineBuffer, collectingTrace, traceLines, traceTimeout
    wpc,            \* the Watch goroutine: "notstarted", "running", "sending" (blocked
                    \* in the send of emitTrace), "returned" (Watch returned nil) or
                    \* "failed" (Watch returned a read error)
    sending,        \* the event of the send Watch is blocked in (a sequence of at most one)
    fileOpen,       \* the Watcher's file handle is open
    configFile,     \* the config file beside the executable: its State ("absent",
                    \* "unreadable", "invalid" for bytes json.Unmarshal rejects, "ok")
                    \* and, when "ok", the Fields json.Unmarshal fills from it
    cfg,            \* the Config of main: the zero Config before RunSetup or LoadConfig
    startErr,       \* the error main met before its goroutines: "none" before main ran,
                    \* "nil", or the message of the error main exits on
    dpc,            \* the Delivery goroutine: "notstarted" or "ranging" over events
    closed,         \* the events channel is closed
    events,         \* the events channel (capacity ChanCap), oldest first
    done,           \* the done channel is closed
    mainpc,         \* main: "waiting" for a signal, "shutdown" (done closed), "exited"
    inflight,       \* the event client.Send is posting (a sequence of at most one)
    sendErr,        \* the err of the loop's current iteration: "nil" or "failed" once
                    \* client.Send has returned, "none" before
    lastErrorHash,  \* the suppressor's hash, <<>> initially (the empty string)
    lastErrorTime,  \* the suppressor's time
    now,            \* the wall clock, ms
    ticks,          \* clock advances so far
    written,        \* history: every byte appended to the file since it was opened
    ingested,       \* history: every line Watch pushed to the Buffer, in order
    traceFrom,      \* history: index in ingested of the first line of the current trace
    emitted,        \* history: every event sent on the channel, with its lines' indexes
    dlog            \* history: every event the Delivery goroutine received

vars == <<unread, w, wpc, sending, fileOpen, configFile, cfg, startErr, dpc, closed, events, done, mainpc, inflight, sendErr, lastErrorHash,
          lastErrorTime, now, ticks, written, ingested, traceFrom, emitted, dlog>>

Last(s) == s[Len(s)]

(***************************************************************************)
(* Tailer: bufio.Reader.ReadString('\n') over the bytes not yet consumed   *)
(***************************************************************************)

\* The bytes up to and including the first newline with a nil error; when
\* there is no newline, every byte there is (consumed from the reader) with
\* io.EOF.
ReadString(data) ==
    LET nl == {i \in 1..Len(data) : data[i] = "\n"}
    IN  IF nl = {}
        THEN [line |-> data, rest |-> <<>>, err |-> "EOF"]
        ELSE LET k == CHOOSE i \in nl : \A j \in nl : i <= j
             IN  [line |-> SubSeq(data, 1, k),
                  rest |-> SubSeq(data, k + 1, Len(data)),
                  err  |-> "nil"]

(***************************************************************************)
(* Reassembler                                                             *)
(***************************************************************************)

\* A Watcher whose Buffer and Accumulator are empty and whose traceTimeout
\* is the zero time.
EmptyWatcher ==
    [lineBuffer      |-> <<>>,
     collectingTrace |-> FALSE,
     traceLines      |-> <<>>,
     traceTimeout    |-> ZeroTime]

\* NewWatcher when os.Open returns openErr and file.Seek returns seekErr
\* ("nil" or a message): the error it returns, the Watcher when there is
\* none, and whether it leaves the file open.
NewWatcher(openErr, seekErr) ==
    IF openErr # "nil"
    THEN [w |-> EmptyWatcher, fileOpen |-> FALSE, err |-> openErr]
    ELSE IF seekErr # "nil"
    THEN [w |-> EmptyWatcher, fileOpen |-> FALSE, err |-> seekErr]
    ELSE [w |-> EmptyWatcher, fileOpen |-> TRUE, err |-> "nil"]

\* pushToBuffer with a slip: a full Buffer loses its newest line.
pushToBufferEvictNewest(w0, line) ==
    LET kept == IF Len(w0.lineBuffer) >= bufferSize
                THEN SubSeq(w0.lineBuffer, 1, Len(w0.lineBuffer) - 1)
                ELSE w0.lineBuffer
    IN  [w0 EXCEPT !.lineBuffer = Append(kept, line)]

pushToBuffer(w0, line) ==
    LET kept == IF Len(w0.lineBuffer) >= bufferSize
                THEN Tail(w0.lineBuffer)
                ELSE w0.lineBuffer
    IN  [w0 EXCEPT !.lineBuffer = Append(kept, line)]

\* The loop of findTraceStart: the index i is examined, returned when its
\* line is a trace start, and the scan stops after an i below len - 10.
RECURSIVE scanTraceStart(_, _)
scanTraceStart(buf, i) ==
    IF i < 1 THEN 0
    ELSE IF isTraceStart(buf[i]) THEN i
    ELSE IF i - 1 < Len(buf) - 10 THEN 0
    ELSE scanTraceStart(buf, i - 1)

\* The start index, 1-based (Go's index plus one).
findTraceStart(buf) ==
    LET found == scanTraceStart(buf, Len(buf))
        start == Len(buf) - 10
    IN  IF found # 0 THEN found
        ELSE IF start < 0 THEN 1 ELSE start + 1

startTrace(w0, triggerLine, t) ==
    LET startIdx == findTraceStart(w0.lineBuffer)
    IN  [w0 EXCEPT !.traceLines      = SubSeq(w0.lineBuffer, startIdx, Len(w0.lineBuffer)),
                   !.collectingTrace = TRUE,
                   !.traceTimeout    = t + traceDuration]

\* The event emitTrace sends at time t.
traceEvent(w0, t) ==
    [Line      |-> Last(w0.traceLines),
     Timestamp |-> t,
     Context   |-> w0.traceLines]

\* emitTrace after its send: the Accumulator is dropped and the Watcher
\* is Idle.
afterSend(w0) == [w0 EXCEPT !.traceLines = <<>>, !.collectingTrace = FALSE]

\* emitTrace with a slip: the errorLine taken from the head of traceLines.
emitTraceFirstLine(w0, ch, t) ==
    IF Len(w0.traceLines) = 0
    THEN [w |-> [w0 EXCEPT !.collectingTrace = FALSE], ch |-> ch, sending |-> <<>>]
    ELSE LET event == [traceEvent(w0, t) EXCEPT !.Line = Head(w0.traceLines)]
         IN  IF Len(ch) >= ChanCap
             THEN [w |-> w0, ch |-> ch, sending |-> <<event>>]
             ELSE [w |-> afterSend(w0), ch |-> Append(ch, event), sending |-> <<>>]

\* emitTrace with a slip: a send that does not block, the event dropped
\* when the channel is full.
emitTraceDropWhenFull(w0, ch, t) ==
    IF Len(w0.traceLines) = 0
    THEN [w |-> [w0 EXCEPT !.collectingTrace = FALSE], ch |-> ch, sending |-> <<>>]
    ELSE LET event == traceEvent(w0, t)
         IN  IF Len(ch) >= ChanCap
             THEN [w |-> afterSend(w0), ch |-> ch, sending |-> <<>>]
             ELSE [w |-> afterSend(w0), ch |-> Append(ch, event), sending |-> <<>>]

\* emitTrace with a slip: traceLines is not cleared.
emitTraceKeepLines(w0, ch, t) ==
    IF Len(w0.traceLines) = 0
    THEN [w |-> [w0 EXCEPT !.collectingTrace = FALSE], ch |-> ch, sending |-> <<>>]
    ELSE LET event == traceEvent(w0, t)
         IN  IF Len(ch) >= ChanCap
             THEN [w |-> w0, ch |-> ch, sending |-> <<event>>]
             ELSE [w  |-> [w0 EXCEPT !.collectingTrace = FALSE],
                   ch |-> Append(ch, event), sending |-> <<>>]

\* emitTrace at time t, up to the point where it returns or blocks: the
\* Watcher, the channel, and the event of the send when the channel is
\* full and the send blocks.
emitTrace(w0, ch, t) ==
    IF Len(w0.traceLines) = 0
    THEN [w |-> [w0 EXCEPT !.collectingTrace = FALSE], ch |-> ch, sending |-> <<>>]
    ELSE LET event == traceEvent(w0, t)
         IN  IF Len(ch) >= ChanCap
             THEN [w |-> w0, ch |-> ch, sending |-> <<event>>]
             ELSE [w |-> afterSend(w0), ch |-> Append(ch, event), sending |-> <<>>]

\* Watch on io.EOF with a slip: the timeout of the trace is not looked at.
onEOFNoTimeout(w0, ch, t) == [w |-> w0, ch |-> ch, sending |-> <<>>]

\* Watch on ReadString's io.EOF: the bytes read are dropped, a trace past
\* its timeout is emitted.
onEOF(w0, ch, t) ==
    IF w0.collectingTrace /\ t > w0.traceTimeout
    THEN emitTrace(w0, ch, t)
    ELSE [w |-> w0, ch |-> ch, sending |-> <<>>]

\* Watch on a line with a slip: a line that is no continuation is appended
\* and the trace is left to the timeout.
onLineWaitsTimeout(w0, ch, raw, t) ==
    LET line == TrimSpace(raw)
    IN  IF line = <<>> THEN [w |-> w0, ch |-> ch, sending |-> <<>>]
        ELSE LET w1 == pushToBuffer(w0, line)
             IN  IF w1.collectingTrace
                 THEN LET w2 == [w1 EXCEPT !.traceLines = Append(@, line)]
                      IN  IF isTraceContinuation(line)
                          THEN [w  |-> [w2 EXCEPT !.traceTimeout = t + traceDuration],
                                ch |-> ch, sending |-> <<>>]
                          ELSE [w |-> w2, ch |-> ch, sending |-> <<>>]
                 ELSE IF isErrorLine(line)
                 THEN [w |-> startTrace(w1, line, t), ch |-> ch, sending |-> <<>>]
                 ELSE [w |-> w1, ch |-> ch, sending |-> <<>>]

\* Watch on a line with a slip: a continuation line sets traceTimeout to
\* the trace duration after the start of the process.
onLineTimeoutFromZero(w0, ch, raw, t) ==
    LET line == TrimSpace(raw)
    IN  IF line = <<>> THEN [w |-> w0, ch |-> ch, sending |-> <<>>]
        ELSE LET w1 == pushToBuffer(w0, line)
             IN  IF w1.collectingTrace
                 THEN LET w2 == [w1 EXCEPT !.traceLines = Append(@, line)]
                      IN  IF isTraceContinuation(line)
                          THEN [w  |-> [w2 EXCEPT !.traceTimeout = traceDuration],
                                ch |-> ch, sending |-> <<>>]
                          ELSE IF ~isErrorLine(line)
                          THEN emitTrace(w2, ch, t)
                          ELSE [w |-> w2, ch |-> ch, sending |-> <<>>]
                 ELSE IF isErrorLine(line)
                 THEN [w |-> startTrace(w1, line, t), ch |-> ch, sending |-> <<>>]
                 ELSE [w |-> w1, ch |-> ch, sending |-> <<>>]

\* Watch on a line with a slip: in Idle a trace-start marker starts a
\* trace as an error line does.
onLineStartsOnMarker(w0, ch, raw, t) ==
    LET line == TrimSpace(raw)
    IN  IF line = <<>> THEN [w |-> w0, ch |-> ch, sending |-> <<>>]
        ELSE LET w1 == pushToBuffer(w0, line)
             IN  IF w1.collectingTrace
                 THEN LET w2 == [w1 EXCEPT !.traceLines = Append(@, line)]
                      IN  IF isTraceContinuation(line)
                          THEN [w  |-> [w2 EXCEPT !.traceTimeout = t + traceDuration],
                                ch |-> ch, sending |-> <<>>]
                          ELSE IF ~isErrorLine(line)
                          THEN emitTrace(w2, ch, t)
                          ELSE [w |-> w2, ch |-> ch, sending |-> <<>>]
                 ELSE IF isErrorLine(line) \/ isTraceStart(line)
                 THEN [w |-> startTrace(w1, line, t), ch |-> ch, sending |-> <<>>]
                 ELSE [w |-> w1, ch |-> ch, sending |-> <<>>]

\* Watch on a line with a slip: a line read while Collecting goes to the
\* Accumulator only, not to the Buffer.
onLineNoPushCollecting(w0, ch, raw, t) ==
    LET line == TrimSpace(raw)
    IN  IF line = <<>> THEN [w |-> w0, ch |-> ch, sending |-> <<>>]
        ELSE IF w0.collectingTrace
             THEN LET w2 == [w0 EXCEPT !.traceLines = Append(@, line)]
                  IN  IF isTraceContinuation(line)
                      THEN [w  |-> [w2 EXCEPT !.traceTimeout = t + traceDuration],
                            ch |-> ch, sending |-> <<>>]
                      ELSE IF ~isErrorLine(line)
                      THEN emitTrace(w2, ch, t)
                      ELSE [w |-> w2, ch |-> ch, sending |-> <<>>]
             ELSE LET w1 == pushToBuffer(w0, line)
                  IN  IF isErrorLine(line)
                      THEN [w |-> startTrace(w1, line, t), ch |-> ch, sending |-> <<>>]
                      ELSE [w |-> w1, ch |-> ch, sending |-> <<>>]

\* Watch on a line that ReadString returned with a nil error.
onLine(w0, ch, raw, t) ==
    LET line == TrimSpace(raw)
    IN  IF line = <<>> THEN [w |-> w0, ch |-> ch, sending |-> <<>>]
        ELSE LET w1 == pushToBuffer(w0, line)
             IN  IF w1.collectingTrace
                 THEN LET w2 == [w1 EXCEPT !.traceLines = Append(@, line)]
                      IN  IF isTraceContinuation(line)
                          THEN [w  |-> [w2 EXCEPT !.traceTimeout = t + traceDuration],
                                ch |-> ch, sending |-> <<>>]
                          ELSE IF ~isErrorLine(line)
                          THEN emitTrace(w2, ch, t)
                          ELSE [w |-> w2, ch |-> ch, sending |-> <<>>]
                 ELSE IF isErrorLine(line)
                 THEN [w |-> startTrace(w1, line, t), ch |-> ch, sending |-> <<>>]
                 ELSE [w |-> w1, ch |-> ch, sending |-> <<>>]

(***************************************************************************)
(* Configuration                                                           *)
(***************************************************************************)

\* Config.Validate with a slip: repo_url is not examined.
ValidateRepoUnchecked(c) ==
    IF c.LogPath = <<>> THEN "log_path is required"
    ELSE IF c.ServerURL = <<>> THEN "server_url is required"
    ELSE "nil"

\* Config.Validate: "nil", or the message of the error it returns.
Validate(c) ==
    IF c.LogPath = <<>> THEN "log_path is required"
    ELSE IF c.ServerURL = <<>> THEN "server_url is required"
    ELSE IF c.RepoURL = <<>> THEN "repo_url is required"
    ELSE "nil"

\* The zero Config: main's cfg before it is assigned, and the Config a
\* function returns beside an error.
ZeroConfig == [LogPath |-> <<>>, ServerURL |-> <<>>, RepoURL |-> <<>>]

\* ConfigExists: os.Stat finds the file.
ConfigExists(file) == file.State # "absent"

\* LoadConfig on the config file: os.ReadFile fails on a file that cannot
\* be read, json.Unmarshal on bytes that are no JSON object of string
\* fields; otherwise the Config holds the fields of the file (a field the
\* file leaves out is the empty string) and is validated.
LoadConfig(file) ==
    IF file.State \in {"absent", "unreadable"}
    THEN [cfg |-> ZeroConfig, err |-> "read failed"]
    ELSE IF file.State = "invalid"
    THEN [cfg |-> ZeroConfig, err |-> "invalid config"]
    ELSE IF Validate(file.Fields) # "nil"
    THEN [cfg |-> ZeroConfig, err |-> Validate(file.Fields)]
    ELSE [cfg |-> file.Fields, err |-> "nil"]

\* promptRequired returns when one of the lines typed on stdin (each
\* without its newline) is not blank.
Answered(lines) == \E i \in 1..Len(lines) : TrimSpace(lines[i]) # <<>>

\* promptRequired: the first line that is not blank, trimmed, and the
\* lines after it.
promptRequired(lines) ==
    LET i == CHOOSE k \in 1..Len(lines) :
                /\ TrimSpace(lines[k]) # <<>>
                /\ \A j \in 1..(k - 1) : TrimSpace(lines[j]) = <<>>
    IN  [input |-> TrimSpace(lines[i]), rest |-> SubSeq(lines, i + 1, Len(lines))]

WebhookPath == <<"/","a","p","i","/","w","e","b","h","o","o","k">>

\* RunSetup returns when its three prompts are answered.
SetupAnswered(lines) ==
    /\ Answered(lines)
    /\ Answered(promptRequired(lines).rest)
    /\ Answered(promptRequired(promptRequired(lines).rest).rest)

\* RunSetup on the lines typed on stdin, SaveConfig returning saveErr: the
\* Config and the error. The config file is written when there is none.
RunSetup(lines, saveErr) ==
    LET logPath   == promptRequired(lines)
        serverURL == promptRequired(logPath.rest)
        repoURL   == promptRequired(serverURL.rest)
        url       == IF ~HasSuffix(serverURL.input, WebhookPath)
                     THEN TrimSuffix(serverURL.input, <<"/">>) \o WebhookPath
                     ELSE serverURL.input
        c         == [LogPath |-> logPath.input, ServerURL |-> url, RepoURL |-> repoURL.input]
    IN  IF Validate(c) # "nil"
        THEN [cfg |-> ZeroConfig, err |-> Validate(c)]
        ELSE IF saveErr # "nil"
        THEN [cfg |-> ZeroConfig, err |-> "failed to save config"]
        ELSE [cfg |-> c, err |-> "nil"]

\* The configuration of a process that started.
ValidConfig ==
    [LogPath   |-> <<"a","p","p",".","l","o","g">>,
     ServerURL |-> <<"h","t","t","p",":","/","/","h","o","s","t","/","a","p","i","/","w","e","b","h","o","o","k">>,
     RepoURL   |-> <<"r","e","p","o">>]

(***************************************************************************)
(* Code points and UTF-8                                                   *)
(***************************************************************************)

\* The printable characters of ASCII, U+0020 to U+007E in order; the grave
\* accent, which a string of the module cannot hold, by its name.
AsciiChars == <<" ", "!", "\"", "#", "$", "%", "&", "'", "(", ")", "*", "+",
    ",", "-", ".", "/", "0", "1", "2", "3", "4", "5", "6", "7", "8", "9", ":",
    ";", "<", "=", ">", "?", "@", "A", "B", "C", "D", "E", "F", "G", "H", "I",
    "J", "K", "L", "M", "N", "O", "P", "Q", "R", "S", "T", "U", "V", "W", "X",
    "Y", "Z", "[", "\\", "]", "^", "_", "U+0060", "a", "b", "c", "d", "e", "f",
    "g", "h", "i", "j", "k", "l", "m", "n", "o", "p", "q", "r", "s", "t", "u",
    "v", "w", "x", "y", "z", "{", "|", "}", "~">>

\* The control characters a line can hold, U+0009 to U+000D in order.
ControlChars == <<"\t", "\n", VerticalTab, "\f", "\r">>

\* The characters of Latin-1 from U+00A0 to U+00FF in order.
Latin1Chars == <<" ", "¡", "¢", "£", "¤", "¥", "¦", "§", "¨", "©", "ª", "«",
    "¬", "­", "®", "¯", "°", "±", "²", "³", "´", "µ", "¶", "·", "¸", "¹", "º",
    "»", "¼", "½", "¾", "¿", "À", "Á", "Â", "Ã", "Ä", "Å", "Æ", "Ç", "È", "É",
    "Ê", "Ë", "Ì", "Í", "Î", "Ï", "Ð", "Ñ", "Ò", "Ó", "Ô", "Õ", "Ö", "×", "Ø",
    "Ù", "Ú", "Û", "Ü", "Ý", "Þ", "ß", "à", "á", "â", "ã", "ä", "å", "æ", "ç",
    "è", "é", "ê", "ë", "ì", "í", "î", "ï", "ð", "ñ", "ò", "ó", "ô", "õ", "ö",
    "÷", "ø", "ù", "ú", "û", "ü", "ý", "þ", "ÿ">>

\* The characters above U+00FF that the module names, in code point
\* order, and their code points.
NamedChars == <<"U+0100", "U+0101", "U+0102", "U+0103", "U+0104", "U+0105",
    "U+0106", "U+0107", "U+0108", "U+0109", "U+010A", "U+010B", "U+010C",
    "U+010D", "U+010E", "U+010F", "U+0110", "U+0111", "U+0112", "U+0113",
    "U+0114", "U+0115", "U+0116", "U+0117", "U+0118", "U+0119", "U+011A",
    "U+011B", "U+011C", "U+011D", "U+011E", "U+011F", "U+0120", "U+0121",
    "U+0122", "U+0123", "U+0124", "U+0125", "U+0126", "U+0127", "U+0128",
    "U+0129", "U+012A", "U+012B", "U+012C", "U+012D", "U+012E", "U+012F",
    DotlessI, "U+0132", "U+0133", "U+0134", "U+0135", "U+0136", "U+0137",
    "U+0139", "U+013A", "U+013B", "U+013C", "U+013D", "U+013E", "U+013F",
    "U+0140", "U+0141", "U+0142", "U+0143", "U+0144", "U+0145", "U+0146",
    "U+0147", "U+0148", "U+014A", "U+014B", "U+014C", "U+014D", "U+014E",
    "U+014F", "U+0150", "U+0151", "U+0152", "U+0153", "U+0154", "U+0155",
    "U+0156", "U+0157", "U+0158", "U+0159", "U+015A", "U+015B", "U+015C",
    "U+015D", "U+015E", "U+015F", "U+0160", "U+0161", "U+0162", "U+0163",
    "U+0164", "U+0165", "U+0166", "U+0167", "U+0168", "U+0169", "U+016A",
    "U+016B", "U+016C", "U+016D", "U+016E", "U+016F", "U+0170", "U+0171",
    "U+0172", "U+0173", "U+0174", "U+0175", "U+0176", "U+0177",
    YDiaeresisUpper, "U+0179", "U+017A", "U+017B", "U+017C", "U+017D",
    "U+017E", LongS, "U+0180", "U+0181", "U+0182", "U+0183", "U+0184",
    "U+0185", "U+0186", "U+0187", "U+0188", "U+0189", "U+018A", "U+018B",
    "U+018C", "U+018E", "U+018F", "U+0190", "U+0191", "U+0192", "U+0193",
    "U+0194", "U+0195", "U+0196", "U+0197", "U+0198", "U+0199", "U+019A",
    "U+019C", "U+019D", "U+019E", "U+019F", "U+01A0", "U+01A1", "U+01A2",
    "U+01A3", "U+01A4", "U+01A5", "U+01A6", "U+01A7", "U+01A8", "U+01A9",
    "U+01AC", "U+01AD", "U+01AE", "U+01AF", "U+01B0", "U+01B1", "U+01B2",
    "U+01B3", "U+01B4", "U+01B5", "U+01B6", "U+01B7", "U+01B8", "U+01B9",
    "U+01BC", "U+01BD", "U+01BF", "U+01C4", "U+01C5", "U+01C6", "U+01C7",
    "U+01C8", "U+01C9", "U+01CA", "U+01CB", "U+01CC", "U+01CD", "U+01CE",
    "U+01CF", "U+01D0", "U+01D1", "U+01D2", "U+01D3", "U+01D4", "U+01D5",
    "U+01D6", "U+01D7", "U+01D8", "U+01D9", "U+01DA", "U+01DB", "U+01DC",
    "U+01DD", "U+01DE", "U+01DF", "U+01E0", "U+01E1", "U+01E2", "U+01E3",
    "U+01E4", "U+01E5", "U+01E6", "U+01E7", "U+01E8", "U+01E9", "U+01EA",
    "U+01EB", "U+01EC", "U+01ED", "U+01EE", "U+01EF", "U+01F1", "U+01F2",
    "U+01F3", "U+01F4", "U+01F5", "U+01F6", "U+01F7", "U+01F8", "U+01F9",
    "U+01FA", "U+01FB", "U+01FC", "U+01FD", "U+01FE", "U+01FF", "U+0200",
    "U+0201", "U+0202", "U+0203", "U+0204", "U+0205", "U+0206", "U+0207",
    "U+0208", "U+0209", "U+020A", "U+020B", "U+020C", "U+020D", "U+020E",
    "U+020F", "U+0210", "U+0211", "U+0212", "U+0213", "U+0214", "U+0215",
    "U+0216", "U+0217", "U+0218", "U+0219", "U+021A", "U+021B", "U+021C",
    "U+021D", "U+021E", "U+021F", "U+0220", "U+0222", "U+0223", "U+0224",
    "U+0225", "U+0226", "U+0227", "U+0228", "U+0229", "U+022A", "U+022B",
    "U+022C", "U+022D", "U+022E", "U+022F", "U+0230", "U+0231", "U+0232",
    "U+0233", "U+023A", "U+023B", "U+023C", "U+023D", "U+023E", "U+023F",
    "U+0240", "U+0241", "U+0242", "U+0243", "U+0244", "U+0245", "U+0246",
    "U+0247", "U+0248", "U+0249", "U+024A", "U+024B", "U+024C", "U+024D",
    "U+024E", "U+024F", "U+0250", "U+0251", "U+0252", "U+0253", "U+0254",
    "U+0256", "U+0257", "U+0259", "U+025B", "U+025C", "U+0260", "U+0261",
    "U+0263", "U+0265", "U+0266", "U+0268", "U+0269", "U+026A", "U+026B",
    "U+026C", "U+026F", "U+0271", "U+0272", "U+0275", "U+027D", "U+0280",
    "U+0282", "U+0283", "U+0287", "U+0288", "U+0289", "U+028A", "U+028B",
    "U+028C", "U+0292", "U+029D", "U+029E", "U+0345", "U+0370", "U+0371",
    "U+0372", "U+0373", "U+0376", "U+0377", "U+037B", "U+037C", "U+037D",
    "U+037F", "U+0386", "U+0388", "U+0389", "U+038A", "U+038C", "U+038E",
    "U+038F", "U+0391", "U+0392", "U+0393", "U+0394", "U+0395", "U+0396",
    "U+0397", "U+0398", "U+0399", "U+039A", "U+039B", MuUpper, "U+039D",
    "U+039E", "U+039F", "U+03A0", "U+03A1", "U+03A3", "U+03A4", "U+03A5",
    "U+03A6", "U+03A7", "U+03A8", "U+03A9", "U+03AA", "U+03AB", "U+03AC",
    "U+03AD", "U+03AE", "U+03AF", "U+03B1", "U+03B2", "U+03B3", "U+03B4",
    "U+03B5", "U+03B6", "U+03B7", "U+03B8", "U+03B9", "U+03BA", "U+03BB",
    "U+03BC", "U+03BD", "U+03BE", "U+03BF", "U+03C0", "U+03C1", "U+03C2",
    "U+03C3", "U+03C4", "U+03C5", "U+03C6", "U+03C7", "U+03C8", "U+03C9",
    "U+03CA", "U+03CB", "U+03CC", "U+03CD", "U+03CE", "U+03CF", "U+03D0",
    "U+03D1", "U+03D5", "U+03D6", "U+03D7", "U+03D8", "U+03D9", "U+03DA",
    "U+03DB", "U+03DC", "U+03DD", "U+03DE", "U+03DF", "U+03E0", "U+03E1",
    "U+03E2", "U+03E3", "U+03E4", "U+03E5", "U+03E6", "U+03E7", "U+03E8",
    "U+03E9", "U+03EA", "U+03EB", "U+03EC", "U+03ED", "U+03EE", "U+03EF",
    "U+03F0", "U+03F1", "U+03F2", "U+03F3", "U+03F5", "U+03F7", "U+03F8",
    "U+03F9", "U+03FA", "U+03FB", "U+03FD", "U+03FE", "U+03FF", "U+0400",
    "U+0401", "U+0402", "U+0403", "U+0404", "U+0405", "U+0406", "U+0407",
    "U+0408", "U+0409", "U+040A", "U+040B", "U+040C", "U+040D", "U+040E",
    "U+040F", "U+0410", "U+0411", "U+0412", "U+0413", "U+0414", "U+0415",
    "U+0416", "U+0417", "U+0418", "U+0419", "U+041A", "U+041B", "U+041C",
    "U+041D", "U+041E", "U+041F", "U+0420", "U+0421", "U+0422", "U+0423",
    "U+0424", "U+0425", "U+0426", "U+0427", "U+0428", "U+0429", "U+042A",
    "U+042B", "U+042C", "U+042D", "U+042E", "U+042F", "U+0430", "U+0431",
    "U+0432", "U+0433", "U+0434", "U+0435", "U+0436", "U+0437", "U+0438",
    "U+0439", "U+043A", "U+043B", "U+043C", "U+043D", "U+043E", "U+043F",
    "U+0440", "U+0441", "U+0442", "U+0443", "U+0444", "U+0445", "U+0446",
    "U+0447", "U+0448", "U+0449", "U+044A", "U+044B", "U+044C", "U+044D",
    "U+044E", "U+044F", "U+0450", "U+0451", "U+0452", "U+0453", "U+0454",
    "U+0455", "U+0456", "U+0457", "U+0458", "U+0459", "U+045A", "U+045B",
    "U+045C", "U+045D", "U+045E", "U+045F", "U+0460", "U+0461", "U+0462",
    "U+0463", "U+0464", "U+0465", "U+0466", "U+0467", "U+0468", "U+0469",
    "U+046A", "U+046B", "U+046C", "U+046D", "U+046E", "U+046F", "U+0470",
    "U+0471", "U+0472", "U+0473", "U+0474", "U+0475", "U+0476", "U+0477",
    "U+0478", "U+0479", "U+047A", "U+047B", "U+047C", "U+047D", "U+047E",
    "U+047F", "U+0480", "U+0481", "U+048A", "U+048B", "U+048C", "U+048D",
    "U+048E", "U+048F", "U+0490", "U+0491", "U+0492", "U+0493", "U+0494",
    "U+0495", "U+0496", "U+0497", "U+0498", "U+0499", "U+049A", "U+049B",
    "U+049C", "U+049D", "U+049E", "U+049F", "U+04A0", "U+04A1", "U+04A2",
    "U+04A3", "U+04A4", "U+04A5", "U+04A6", "U+04A7", "U+04A8", "U+04A9",
    "U+04AA", "U+04AB", "U+04AC", "U+04AD", "U+04AE", "U+04AF", "U+04B0",
    "U+04B1", "U+04B2", "U+04B3", "U+04B4", "U+04B5", "U+04B6", "U+04B7",
    "U+04B8", "U+04B9", "U+04BA", "U+04BB", "U+04BC", "U+04BD", "U+04BE",
    "U+04BF", "U+04C0", "U+04C1", "U+04C2", "U+04C3", "U+04C4", "U+04C5",
    "U+04C6", "U+04C7", "U+04C8", "U+04C9", "U+04CA", "U+04CB", "U+04CC",
    "U+04CD", "U+04CE", "U+04CF", "U+04D0", "U+04D1", "U+04D2", "U+04D3",
    "U+04D4", "U+04D5", "U+04D6", "U+04D7", "U+04D8", "U+04D9", "U+04DA",
    "U+04DB", "U+04DC", "U+04DD", "U+04DE", "U+04DF", "U+04E0", "U+04E1",
    "U+04E2", "U+04E3", "U+04E4", "U+04E5", "U+04E6", "U+04E7", "U+04E8",
    "U+04E9", "U+04EA", "U+04EB", "U+04EC", "U+04ED", "U+04EE", "U+04EF",
    "U+04F0", "U+04F1", "U+04F2", "U+04F3", "U+04F4", "U+04F5", "U+04F6",
    "U+04F7", "U+04F8", "U+04F9", "U+04FA", "U+04FB", "U+04FC", "U+04FD",
    "U+04FE", "U+04FF", "U+0500", "U+0501", "U+0502", "U+0503", "U+0504",
    "U+0505", "U+0506", "U+0507", "U+0508", "U+0509", "U+050A", "U+050B",
    "U+050C", "U+050D", "U+050E", "U+050F", "U+0510", "U+0511", "U+0512",
    "U+0513", "U+0514", "U+0515", "U+0516", "U+0517", "U+0518", "U+0519",
    "U+051A", "U+051B", "U+051C", "U+051D", "U+051E", "U+051F", "U+0520",
    "U+0521", "U+0522", "U+0523", "U+0524", "U+0525", "U+0526", "U+0527",
    "U+0528", "U+0529", "U+052A", "U+052B", "U+052C", "U+052D", "U+052E",
    "U+052F", "U+0531", "U+0532", "U+0533", "U+0534", "U+0535", "U+0536",
    "U+0537", "U+0538", "U+0539", "U+053A", "U+053B", "U+053C", "U+053D",
    "U+053E", "U+053F", "U+0540", "U+0541", "U+0542", "U+0543", "U+0544",
    "U+0545", "U+0546", "U+0547", "U+0548", "U+0549", "U+054A", "U+054B",
    "U+054C", "U+054D", "U+054E", "U+054F", "U+0550", "U+0551", "U+0552",
    "U+0553", "U+0554", "U+0555", "U+0556", "U+0561", "U+0562", "U+0563",
    "U+0564", "U+0565", "U+0566", "U+0567", "U+0568", "U+0569", "U+056A",
    "U+056B", "U+056C", "U+056D", "U+056E", "U+056F", "U+0570", "U+0571",
    "U+0572", "U+0573", "U+0574", "U+0575", "U+0576", "U+0577", "U+0578",
    "U+0579", "U+057A", "U+057B", "U+057C", "U+057D", "U+057E", "U+057F",
    "U+0580", "U+0581", "U+0582", "U+0583", "U+0584", "U+0585", "U+0586",
    "U+10A0", "U+10A1", "U+10A2", "U+10A3", "U+10A4", "U+10A5", "U+10A6",
    "U+10A7", "U+10A8", "U+10A9", "U+10AA", "U+10AB", "U+10AC", "U+10AD",
    "U+10AE", "U+10AF", "U+10B0", "U+10B1", "U+10B2", "U+10B3", "U+10B4",
    "U+10B5", "U+10B6", "U+10B7", "U+10B8", "U+10B9", "U+10BA", "U+10BB",
    "U+10BC", "U+10BD", "U+10BE", "U+10BF", "U+10C0", "U+10C1", "U+10C2",
    "U+10C3", "U+10C4", "U+10C5", "U+10C7", "U+10CD", "U+10D0", "U+10D1",
    "U+10D2", "U+10D3", "U+10D4", "U+10D5", "U+10D6", "U+10D7", "U+10D8",
    "U+10D9", "U+10DA", "U+10DB", "U+10DC", "U+10DD", "U+10DE", "U+10DF",
    "U+10E0", "U+10E1", "U+10E2", "U+10E3", "U+10E4", "U+10E5", "U+10E6",
    "U+10E7", "U+10E8", "U+10E9", "U+10EA", "U+10EB", "U+10EC", "U+10ED",
    "U+10EE", "U+10EF", "U+10F0", "U+10F1", "U+10F2", "U+10F3", "U+10F4",
    "U+10F5", "U+10F6", "U+10F7", "U+10F8", "U+10F9", "U+10FA", "U+10FD",
    "U+10FE", "U+10FF", "U+13A0", "U+13A1", "U+13A2", "U+13A3", "U+13A4",
    "U+13A5", "U+13A6", "U+13A7", "U+13A8", "U+13A9", "U+13AA", "U+13AB",
    "U+13AC", "U+13AD", "U+13AE", "U+13AF", "U+13B0", "U+13B1", "U+13B2",
    "U+13B3", "U+13B4", "U+13B5", "U+13B6", "U+13B7", "U+13B8", "U+13B9",
    "U+13BA", "U+13BB", "U+13BC", "U+13BD", "U+13BE", "U+13BF", "U+13C0",
    "U+13C1", "U+13C2", "U+13C3", "U+13C4", "U+13C5", "U+13C6", "U+13C7",
    "U+13C8", "U+13C9", "U+13CA", "U+13CB", "U+13CC", "U+13CD", "U+13CE",
    "U+13CF", "U+13D0", "U+13D1", "U+13D2", "U+13D3", "U+13D4", "U+13D5",
    "U+13D6", "U+13D7", "U+13D8", "U+13D9", "U+13DA", "U+13DB", "U+13DC",
    "U+13DD", "U+13DE", "U+13DF", "U+13E0", "U+13E1", "U+13E2", "U+13E3",
    "U+13E4", "U+13E5", "U+13E6", "U+13E7", "U+13E8", "U+13E9", "U+13EA",
    "U+13EB", "U+13EC", "U+13ED", "U+13EE", "U+13EF", "U+13F0", "U+13F1",
    "U+13F2", "U+13F3", "U+13F4", "U+13F5", "U+13F8", "U+13F9", "U+13FA",
    "U+13FB", "U+13FC", "U+13FD", "U+1680", "U+1C80", "U+1C81", "U+1C82",
    "U+1C83", "U+1C84", "U+1C85", "U+1C86", "U+1C87", "U+1C88", "U+1C90",
    "U+1C91", "U+1C92", "U+1C93", "U+1C94", "U+1C95", "U+1C96", "U+1C97",
    "U+1C98", "U+1C99", "U+1C9A", "U+1C9B", "U+1C9C", "U+1C9D", "U+1C9E",
    "U+1C9F", "U+1CA0", "U+1CA1", "U+1CA2", "U+1CA3", "U+1CA4", "U+1CA5",
    "U+1CA6", "U+1CA7", "U+1CA8", "U+1CA9", "U+1CAA", "U+1CAB", "U+1CAC",
    "U+1CAD", "U+1CAE", "U+1CAF", "U+1CB0", "U+1CB1", "U+1CB2", "U+1CB3",
    "U+1CB4", "U+1CB5", "U+1CB6", "U+1CB7", "U+1CB8", "U+1CB9", "U+1CBA",
    "U+1CBD", "U+1CBE", "U+1CBF", "U+1D79", "U+1D7D", "U+1D8E", "U+1E00",
    "U+1E01", "U+1E02", "U+1E03", "U+1E04", "U+1E05", "U+1E06", "U+1E07",
    "U+1E08", "U+1E09", "U+1E0A", "U+1E0B", "U+1E0C", "U+1E0D", "U+1E0E",
    "U+1E0F", "U+1E10", "U+1E11", "U+1E12", "U+1E13", "U+1E14", "U+1E15",
    "U+1E16", "U+1E17", "U+1E18", "U+1E19", "U+1E1A", "U+1E1B", "U+1E1C",
    "U+1E1D", "U+1E1E", "U+1E1F", "U+1E20", "U+1E21", "U+1E22", "U+1E23",
    "U+1E24", "U+1E25", "U+1E26", "U+1E27", "U+1E28", "U+1E29", "U+1E2A",
    "U+1E2B", "U+1E2C", "U+1E2D", "U+1E2E", "U+1E2F", "U+1E30", "U+1E31",
    "U+1E32", "U+1E33", "U+1E34", "U+1E35", "U+1E36", "U+1E37", "U+1E38",
    "U+1E39", "U+1E3A", "U+1E3B", "U+1E3C", "U+1E3D", "U+1E3E", "U+1E3F",
    "U+1E40", "U+1E41", "U+1E42", "U+1E43", "U+1E44", "U+1E45", "U+1E46",
    "U+1E47", "U+1E48", "U+1E49", "U+1E4A", "U+1E4B", "U+1E4C", "U+1E4D",
    "U+1E4E", "U+1E4F", "U+1E50", "U+1E51", "U+1E52", "U+1E53", "U+1E54",
    "U+1E55", "U+1E56", "U+1E57", "U+1E58", "U+1E59", "U+1E5A", "U+1E5B",
    "U+1E5C", "U+1E5D", "U+1E5E", "U+1E5F", "U+1E60", "U+1E61", "U+1E62",
    "U+1E63", "U+1E64", "U+1E65", "U+1E66", "U+1E67", "U+1E68", "U+1E69",
    "U+1E6A", "U+1E6B", "U+1E6C", "U+1E6D", "U+1E6E", "U+1E6F", "U+1E70",
    "U+1E71", "U+1E72", "U+1E73", "U+1E74", "U+1E75", "U+1E76", "U+1E77",
    "U+1E78", "U+1E79", "U+1E7A", "U+1E7B", "U+1E7C", "U+1E7D", "U+1E7E",
    "U+1E7F", "U+1E80", "U+1E81", "U+1E82", "U+1E83", "U+1E84", "U+1E85",
    "U+1E86", "U+1E87", "U+1E88", "U+1E89", "U+1E8A", "U+1E8B", "U+1E8C",
    "U+1E8D", "U+1E8E", "U+1E8F", "U+1E90", "U+1E91", "U+1E92", "U+1E93",
    "U+1E94", "U+1E95", "U+1E9B", "U+1EA0", "U+1EA1", "U+1EA2", "U+1EA3",
    "U+1EA4", "U+1EA5", "U+1EA6", "U+1EA7", "U+1EA8", "U+1EA9", "U+1EAA",
    "U+1EAB", "U+1EAC", "U+1EAD", "U+1EAE", "U+1EAF", "U+1EB0", "U+1EB1",
    "U+1EB2", "U+1EB3", "U+1EB4", "U+1EB5", "U+1EB6", "U+1EB7", "U+1EB8",
    "U+1EB9", "U+1EBA", "U+1EBB", "U+1EBC", "U+1EBD", "U+1EBE", "U+1EBF",
    "U+1EC0", "U+1EC1", "U+1EC2", "U+1EC3", "U+1EC4", "U+1EC5", "U+1EC6",
    "U+1EC7", "U+1EC8", "U+1EC9", "U+1ECA", "U+1ECB", "U+1ECC", "U+1ECD",
    "U+1ECE", "U+1ECF", "U+1ED0", "U+1ED1", "U+1ED2", "U+1ED3", "U+1ED4",
    "U+1ED5", "U+1ED6", "U+1ED7", "U+1ED8", "U+1ED9", "U+1EDA", "U+1EDB",
    "U+1EDC", "U+1EDD", "U+1EDE", "U+1EDF", "U+1EE0", "U+1EE1", "U+1EE2",
    "U+1EE3", "U+1EE4", "U+1EE5", "U+1EE6", "U+1EE7", "U+1EE8", "U+1EE9",
    "U+1EEA", "U+1EEB", "U+1EEC", "U+1EED", "U+1EEE", "U+1EEF", "U+1EF0",
    "U+1EF1", "U+1EF2", "U+1EF3", "U+1EF4", "U+1EF5", "U+1EF6", "U+1EF7",
    "U+1EF8", "U+1EF9", "U+1EFA", "U+1EFB", "U+1EFC", "U+1EFD", "U+1EFE",
    "U+1EFF", "U+1F00", "U+1F01", "U+1F02", "U+1F03", "U+1F04", "U+1F05",
    "U+1F06", "U+1F07", "U+1F08", "U+1F09", "U+1F0A", "U+1F0B", "U+1F0C",
    "U+1F0D", "U+1F0E", "U+1F0F", "U+1F10", "U+1F11", "U+1F12", "U+1F13",
    "U+1F14", "U+1F15", "U+1F18", "U+1F19", "U+1F1A", "U+1F1B", "U+1F1C",
    "U+1F1D", "U+1F20", "U+1F21", "U+1F22", "U+1F23", "U+1F24", "U+1F25",
    "U+1F26", "U+1F27", "U+1F28", "U+1F29", "U+1F2A", "U+1F2B", "U+1F2C",
    "U+1F2D", "U+1F2E", "U+1F2F", "U+1F30", "U+1F31", "U+1F32", "U+1F33",
    "U+1F34", "U+1F35", "U+1F36", "U+1F37", "U+1F38", "U+1F39", "U+1F3A",
    "U+1F3B", "U+1F3C", "U+1F3D", "U+1F3E", "U+1F3F", "U+1F40", "U+1F41",
    "U+1F42", "U+1F43", "U+1F44", "U+1F45", "U+1F48", "U+1F49", "U+1F4A",
    "U+1F4B", "U+1F4C", "U+1F4D", "U+1F51", "U+1F53", "U+1F55", "U+1F57",
    "U+1F59", "U+1F5B", "U+1F5D", "U+1F5F", "U+1F60", "U+1F61", "U+1F62",
    "U+1F63", "U+1F64", "U+1F65", "U+1F66", "U+1F67", "U+1F68", "U+1F69",
    "U+1F6A", "U+1F6B", "U+1F6C", "U+1F6D", "U+1F6E", "U+1F6F", "U+1F70",
    "U+1F71", "U+1F72", "U+1F73", "U+1F74", "U+1F75", "U+1F76", "U+1F77",
    "U+1F78", "U+1F79", "U+1F7A", "U+1F7B", "U+1F7C", "U+1F7D", "U+1F80",
    "U+1F81", "U+1F82", "U+1F83", "U+1F84", "U+1F85", "U+1F86", "U+1F87",
    "U+1F88", "U+1F89", "U+1F8A", "U+1F8B", "U+1F8C", "U+1F8D", "U+1F8E",
    "U+1F8F", "U+1F90", "U+1F91", "U+1F92", "U+1F93", "U+1F94", "U+1F95",
    "U+1F96", "U+1F97", "U+1F98", "U+1F99", "U+1F9A", "U+1F9B", "U+1F9C",
    "U+1F9D", "U+1F9E", "U+1F9F", "U+1FA0", "U+1FA1", "U+1FA2", "U+1FA3",
    "U+1FA4", "U+1FA5", "U+1FA6", "U+1FA7", "U+1FA8", "U+1FA9", "U+1FAA",
    "U+1FAB", "U+1FAC", "U+1FAD", "U+1FAE", "U+1FAF", "U+1FB0", "U+1FB1",
    "U+1FB3", "U+1FB8", "U+1FB9", "U+1FBA", "U+1FBB", "U+1FBC", "U+1FBE",
    "U+1FC3", "U+1FC8", "U+1FC9", "U+1FCA", "U+1FCB", "U+1FCC", "U+1FD0",
    "U+1FD1", "U+1FD8", "U+1FD9", "U+1FDA", "U+1FDB", "U+1FE0", "U+1FE1",
    "U+1FE5", "U+1FE8", "U+1FE9", "U+1FEA", "U+1FEB", "U+1FEC", "U+1FF3",
    "U+1FF8", "U+1FF9", "U+1FFA", "U+1FFB", "U+1FFC", "U+2000", "U+2001",
    "U+2002", "U+2003", "U+2004", "U+2005", "U+2006", "U+2007", "U+2008",
    "U+2009", "U+200A", "U+2028", "U+2029", "U+202F", "U+205F", "U+2132",
    "U+214E", "U+2160", "U+2161", "U+2162", "U+2163", "U+2164", "U+2165",
    "U+2166", "U+2167", "U+2168", "U+2169", "U+216A", "U+216B", "U+216C",
    "U+216D", "U+216E", "U+216F", "U+2170", "U+2171", "U+2172", "U+2173",
    "U+2174", "U+2175", "U+2176", "U+2177", "U+2178", "U+2179", "U+217A",
    "U+217B", "U+217C", "U+217D", "U+217E", "U+217F", "U+2183", "U+2184",
    "U+24B6", "U+24B7", "U+24B8", "U+24B9", "U+24BA", "U+24BB", "U+24BC",
    "U+24BD", "U+24BE", "U+24BF", "U+24C0", "U+24C1", "U+24C2", "U+24C3",
    "U+24C4", "U+24C5", "U+24C6", "U+24C7", "U+24C8", "U+24C9", "U+24CA",
    "U+24CB", "U+24CC", "U+24CD", "U+24CE", "U+24CF", "U+24D0", "U+24D1",
    "U+24D2", "U+24D3", "U+24D4", "U+24D5", "U+24D6", "U+24D7", "U+24D8",
    "U+24D9", "U+24DA", "U+24DB", "U+24DC", "U+24DD", "U+24DE", "U+24DF",
    "U+24E0", "U+24E1", "U+24E2", "U+24E3", "U+24E4", "U+24E5", "U+24E6",
    "U+24E7", "U+24E8", "U+24E9", "U+2C00", "U+2C01", "U+2C02", "U+2C03",
    "U+2C04", "U+2C05", "U+2C06", "U+2C07", "U+2C08", "U+2C09", "U+2C0A",
    "U+2C0B", "U+2C0C", "U+2C0D", "U+2C0E", "U+2C0F", "U+2C10", "U+2C11",
    "U+2C12", "U+2C13", "U+2C14", "U+2C15", "U+2C16", "U+2C17", "U+2C18",
    "U+2C19", "U+2C1A", "U+2C1B", "U+2C1C", "U+2C1D", "U+2C1E", "U+2C1F",
    "U+2C20", "U+2C21", "U+2C22", "U+2C23", "U+2C24", "U+2C25", "U+2C26",
    "U+2C27", "U+2C28", "U+2C29", "U+2C2A", "U+2C2B", "U+2C2C", "U+2C2D",
    "U+2C2E", "U+2C2F", "U+2C30", "U+2C31", "U+2C32", "U+2C33", "U+2C34",
    "U+2C35", "U+2C36", "U+2C37", "U+2C38", "U+2C39", "U+2C3A", "U+2C3B",
    "U+2C3C", "U+2C3D", "U+2C3E", "U+2C3F", "U+2C40", "U+2C41", "U+2C42",
    "U+2C43", "U+2C44", "U+2C45", "U+2C46", "U+2C47", "U+2C48", "U+2C49",
    "U+2C4A", "U+2C4B", "U+2C4C", "U+2C4D", "U+2C4E", "U+2C4F", "U+2C50",
    "U+2C51", "U+2C52", "U+2C53", "U+2C54", "U+2C55", "U+2C56", "U+2C57",
    "U+2C58", "U+2C59", "U+2C5A", "U+2C5B", "U+2C5C", "U+2C5D", "U+2C5E",
    "U+2C5F", "U+2C60", "U+2C61", "U+2C62", "U+2C63", "U+2C64", "U+2C65",
    "U+2C66", "U+2C67", "U+2C68", "U+2C69", "U+2C6A", "U+2C6B", "U+2C6C",
    "U+2C6D", "U+2C6E", "U+2C6F", "U+2C70", "U+2C72", "U+2C73", "U+2C75",
    "U+2C76", "U+2C7E", "U+2C7F", "U+2C80", "U+2C81", "U+2C82", "U+2C83",
    "U+2C84", "U+2C85", "U+2C86", "U+2C87", "U+2C88", "U+2C89", "U+2C8A",
    "U+2C8B", "U+2C8C", "U+2C8D", "U+2C8E", "U+2C8F", "U+2C90", "U+2C91",
    "U+2C92", "U+2C93", "U+2C94", "U+2C95", "U+2C96", "U+2C97", "U+2C98",
    "U+2C99", "U+2C9A", "U+2C9B", "U+2C9C", "U+2C9D", "U+2C9E", "U+2C9F",
    "U+2CA0", "U+2CA1", "U+2CA2", "U+2CA3", "U+2CA4", "U+2CA5", "U+2CA6",
    "U+2CA7", "U+2CA8", "U+2CA9", "U+2CAA", "U+2CAB", "U+2CAC", "U+2CAD",
    "U+2CAE", "U+2CAF", "U+2CB0", "U+2CB1", "U+2CB2", "U+2CB3", "U+2CB4",
    "U+2CB5", "U+2CB6", "U+2CB7", "U+2CB8", "U+2CB9", "U+2CBA", "U+2CBB",
    "U+2CBC", "U+2CBD", "U+2CBE", "U+2CBF", "U+2CC0", "U+2CC1", "U+2CC2",
    "U+2CC3", "U+2CC4", "U+2CC5", "U+2CC6", "U+2CC7", "U+2CC8", "U+2CC9",
    "U+2CCA", "U+2CCB", "U+2CCC", "U+2CCD", "U+2CCE", "U+2CCF", "U+2CD0",
    "U+2CD1", "U+2CD2", "U+2CD3", "U+2CD4", "U+2CD5", "U+2CD6", "U+2CD7",
    "U+2CD8", "U+2CD9", "U+2CDA", "U+2CDB", "U+2CDC", "U+2CDD", "U+2CDE",
    "U+2CDF", "U+2CE0", "U+2CE1", "U+2CE2", "U+2CE3", "U+2CEB", "U+2CEC",
    "U+2CED", "U+2CEE", "U+2CF2", "U+2CF3", "U+2D00", "U+2D01", "U+2D02",
    "U+2D03", "U+2D04", "U+2D05", "U+2D06", "U+2D07", "U+2D08", "U+2D09",
    "U+2D0A", "U+2D0B", "U+2D0C", "U+2D0D", "U+2D0E", "U+2D0F", "U+2D10",
    "U+2D11", "U+2D12", "U+2D13", "U+2D14", "U+2D15", "U+2D16", "U+2D17",
    "U+2D18", "U+2D19", "U+2D1A", "U+2D1B", "U+2D1C", "U+2D1D", "U+2D1E",
    "U+2D1F", "U+2D20", "U+2D21", "U+2D22", "U+2D23", "U+2D24", "U+2D25",
    "U+2D27", "U+2D2D", "U+3000", "U+A640", "U+A641", "U+A642", "U+A643",
    "U+A644", "U+A645", "U+A646", "U+A647", "U+A648", "U+A649", "U+A64A",
    "U+A64B", "U+A64C", "U+A64D", "U+A64E", "U+A64F", "U+A650", "U+A651",
    "U+A652", "U+A653", "U+A654", "U+A655", "U+A656", "U+A657", "U+A658",
    "U+A659", "U+A65A", "U+A65B", "U+A65C", "U+A65D", "U+A65E", "U+A65F",
    "U+A660", "U+A661", "U+A662", "U+A663", "U+A664", "U+A665", "U+A666",
    "U+A667", "U+A668", "U+A669", "U+A66A", "U+A66B", "U+A66C", "U+A66D",
    "U+A680", "U+A681", "U+A682", "U+A683", "U+A684", "U+A685", "U+A686",
    "U+A687", "U+A688", "U+A689", "U+A68A", "U+A68B", "U+A68C", "U+A68D",
    "U+A68E", "U+A68F", "U+A690", "U+A691", "U+A692", "U+A693", "U+A694",
    "U+A695", "U+A696", "U+A697", "U+A698", "U+A699", "U+A69A", "U+A69B",
    "U+A722", "U+A723", "U+A724", "U+A725", "U+A726", "U+A727", "U+A728",
    "U+A729", "U+A72A", "U+A72B", "U+A72C", "U+A72D", "U+A72E", "U+A72F",
    "U+A732", "U+A733", "U+A734", "U+A735", "U+A736", "U+A737", "U+A738",
    "U+A739", "U+A73A", "U+A73B", "U+A73C", "U+A73D", "U+A73E", "U+A73F",
    "U+A740", "U+A741", "U+A742", "U+A743", "U+A744", "U+A745", "U+A746",
    "U+A747", "U+A748", "U+A749", "U+A74A", "U+A74B", "U+A74C", "U+A74D",
    "U+A74E", "U+A74F", "U+A750", "U+A751", "U+A752", "U+A753", "U+A754",
    "U+A755", "U+A756", "U+A757", "U+A758", "U+A759", "U+A75A", "U+A75B",
    "U+A75C", "U+A75D", "U+A75E", "U+A75F", "U+A760", "U+A761", "U+A762",
    "U+A763", "U+A764", "U+A765", "U+A766", "U+A767", "U+A768", "U+A769",
    "U+A76A", "U+A76B", "U+A76C", "U+A76D", "U+A76E", "U+A76F", "U+A779",
    "U+A77A", "U+A77B", "U+A77C", "U+A77D", "U+A77E", "U+A77F", "U+A780",
    "U+A781", "U+A782", "U+A783", "U+A784", "U+A785", "U+A786", "U+A787",
    "U+A78B", "U+A78C", "U+A78D", "U+A790", "U+A791", "U+A792", "U+A793",
    "U+A794", "U+A796", "U+A797", "U+A798", "U+A799", "U+A79A", "U+A79B",
    "U+A79C", "U+A79D", "U+A79E", "U+A79F", "U+A7A0", "U+A7A1", "U+A7A2",
    "U+A7A3", "U+A7A4", "U+A7A5", "U+A7A6", "U+A7A7", "U+A7A8", "U+A7A9",
    "U+A7AA", "U+A7AB", "U+A7AC", "U+A7AD", "U+A7AE", "U+A7B0", "U+A7B1",
    "U+A7B2", "U+A7B3", "U+A7B4", "U+A7B5", "U+A7B6", "U+A7B7", "U+A7B8",
    "U+A7B9", "U+A7BA", "U+A7BB", "U+A7BC", "U+A7BD", "U+A7BE", "U+A7BF",
    "U+A7C0", "U+A7C1", "U+A7C2", "U+A7C3", "U+A7C4", "U+A7C5", "U+A7C6",
    "U+A7C7", "U+A7C8", "U+A7C9", "U+A7CA", "U+A7D0", "U+A7D1", "U+A7D6",
    "U+A7D7", "U+A7D8", "U+A7D9", "U+A7F5", "U+A7F6", "U+AB53", "U+AB70",
    "U+AB71", "U+AB72", "U+AB73", "U+AB74", "U+AB75", "U+AB76", "U+AB77",
    "U+AB78", "U+AB79", "U+AB7A", "U+AB7B", "U+AB7C", "U+AB7D", "U+AB7E",
    "U+AB7F", "U+AB80", "U+AB81", "U+AB82", "U+AB83", "U+AB84", "U+AB85",
    "U+AB86", "U+AB87", "U+AB88", "U+AB89", "U+AB8A", "U+AB8B", "U+AB8C",
    "U+AB8D", "U+AB8E", "U+AB8F", "U+AB90", "U+AB91", "U+AB92", "U+AB93",
    "U+AB94", "U+AB95", "U+AB96", "U+AB97", "U+AB98", "U+AB99", "U+AB9A",
    "U+AB9B", "U+AB9C", "U+AB9D", "U+AB9E", "U+AB9F", "U+ABA0", "U+ABA1",
    "U+ABA2", "U+ABA3", "U+ABA4", "U+ABA5", "U+ABA6", "U+ABA7", "U+ABA8",
    "U+ABA9", "U+ABAA", "U+ABAB", "U+ABAC", "U+ABAD", "U+ABAE", "U+ABAF",
    "U+ABB0", "U+ABB1", "U+ABB2", "U+ABB3", "U+ABB4", "U+ABB5", "U+ABB6",
    "U+ABB7", "U+ABB8", "U+ABB9", "U+ABBA", "U+ABBB", "U+ABBC", "U+ABBD",
    "U+ABBE", "U+ABBF", "U+FF21", "U+FF22", "U+FF23", "U+FF24", "U+FF25",
    "U+FF26", "U+FF27", "U+FF28", "U+FF29", "U+FF2A", "U+FF2B", "U+FF2C",
    "U+FF2D", "U+FF2E", "U+FF2F", "U+FF30", "U+FF31", "U+FF32", "U+FF33",
    "U+FF34", "U+FF35", "U+FF36", "U+FF37", "U+FF38", "U+FF39", "U+FF3A",
    "U+FF41", "U+FF42", "U+FF43", "U+FF44", "U+FF45", "U+FF46", "U+FF47",
    "U+FF48", "U+FF49", "U+FF4A", "U+FF4B", "U+FF4C", "U+FF4D", "U+FF4E",
    "U+FF4F", "U+FF50", "U+FF51", "U+FF52", "U+FF53", "U+FF54", "U+FF55",
    "U+FF56", "U+FF57", "U+FF58", "U+FF59", "U+FF5A", "U+10400", "U+10401",
    "U+10402", "U+10403", "U+10404", "U+10405", "U+10406", "U+10407",
    "U+10408", "U+10409", "U+1040A", "U+1040B", "U+1040C", "U+1040D",
    "U+1040E", "U+1040F", "U+10410", "U+10411", "U+10412", "U+10413",
    "U+10414", "U+10415", "U+10416", "U+10417", "U+10418", "U+10419",
    "U+1041A", "U+1041B", "U+1041C", "U+1041D", "U+1041E", "U+1041F",
    "U+10420", "U+10421", "U+10422", "U+10423", "U+10424", "U+10425",
    "U+10426", "U+10427", "U+10428", "U+10429", "U+1042A", "U+1042B",
    "U+1042C", "U+1042D", "U+1042E", "U+1042F", "U+10430", "U+10431",
    "U+10432", "U+10433", "U+10434", "U+10435", "U+10436", "U+10437",
    "U+10438", "U+10439", "U+1043A", "U+1043B", "U+1043C", "U+1043D",
    "U+1043E", "U+1043F", "U+10440", "U+10441", "U+10442", "U+10443",
    "U+10444", "U+10445", "U+10446", "U+10447", "U+10448", "U+10449",
    "U+1044A", "U+1044B", "U+1044C", "U+1044D", "U+1044E", "U+1044F",
    "U+104B0", "U+104B1", "U+104B2", "U+104B3", "U+104B4", "U+104B5",
    "U+104B6", "U+104B7", "U+104B8", "U+104B9", "U+104BA", "U+104BB",
    "U+104BC", "U+104BD", "U+104BE", "U+104BF", "U+104C0", "U+104C1",
    "U+104C2", "U+104C3", "U+104C4", "U+104C5", "U+104C6", "U+104C7",
    "U+104C8", "U+104C9", "U+104CA", "U+104CB", "U+104CC", "U+104CD",
    "U+104CE", "U+104CF", "U+104D0", "U+104D1", "U+104D2", "U+104D3",
    "U+104D8", "U+104D9", "U+104DA", "U+104DB", "U+104DC", "U+104DD",
    "U+104DE", "U+104DF", "U+104E0", "U+104E1", "U+104E2", "U+104E3",
    "U+104E4", "U+104E5", "U+104E6", "U+104E7", "U+104E8", "U+104E9",
    "U+104EA", "U+104EB", "U+104EC", "U+104ED", "U+104EE", "U+104EF",
    "U+104F0", "U+104F1", "U+104F2", "U+104F3", "U+104F4", "U+104F5",
    "U+104F6", "U+104F7", "U+104F8", "U+104F9", "U+104FA", "U+104FB",
    "U+10570", "U+10571", "U+10572", "U+10573", "U+10574", "U+10575",
    "U+10576", "U+10577", "U+10578", "U+10579", "U+1057A", "U+1057C",
    "U+1057D", "U+1057E", "U+1057F", "U+10580", "U+10581", "U+10582",
    "U+10583", "U+10584", "U+10585", "U+10586", "U+10587", "U+10588",
    "U+10589", "U+1058A", "U+1058C", "U+1058D", "U+1058E", "U+1058F",
    "U+10590", "U+10591", "U+10592", "U+10594", "U+10595", "U+10597",
    "U+10598", "U+10599", "U+1059A", "U+1059B", "U+1059C", "U+1059D",
    "U+1059E", "U+1059F", "U+105A0", "U+105A1", "U+105A3", "U+105A4",
    "U+105A5", "U+105A6", "U+105A7", "U+105A8", "U+105A9", "U+105AA",
    "U+105AB", "U+105AC", "U+105AD", "U+105AE", "U+105AF", "U+105B0",
    "U+105B1", "U+105B3", "U+105B4", "U+105B5", "U+105B6", "U+105B7",
    "U+105B8", "U+105B9", "U+105BB", "U+105BC", "U+10C80", "U+10C81",
    "U+10C82", "U+10C83", "U+10C84", "U+10C85", "U+10C86", "U+10C87",
    "U+10C88", "U+10C89", "U+10C8A", "U+10C8B", "U+10C8C", "U+10C8D",
    "U+10C8E", "U+10C8F", "U+10C90", "U+10C91", "U+10C92", "U+10C93",
    "U+10C94", "U+10C95", "U+10C96", "U+10C97", "U+10C98", "U+10C99",
    "U+10C9A", "U+10C9B", "U+10C9C", "U+10C9D", "U+10C9E", "U+10C9F",
    "U+10CA0", "U+10CA1", "U+10CA2", "U+10CA3", "U+10CA4", "U+10CA5",
    "U+10CA6", "U+10CA7", "U+10CA8", "U+10CA9", "U+10CAA", "U+10CAB",
    "U+10CAC", "U+10CAD", "U+10CAE", "U+10CAF", "U+10CB0", "U+10CB1",
    "U+10CB2", "U+10CC0", "U+10CC1", "U+10CC2", "U+10CC3", "U+10CC4",
    "U+10CC5", "U+10CC6", "U+10CC7", "U+10CC8", "U+10CC9", "U+10CCA",
    "U+10CCB", "U+10CCC", "U+10CCD", "U+10CCE", "U+10CCF", "U+10CD0",
    "U+10CD1", "U+10CD2", "U+10CD3", "U+10CD4", "U+10CD5", "U+10CD6",
    "U+10CD7", "U+10CD8", "U+10CD9", "U+10CDA", "U+10CDB", "U+10CDC",
    "U+10CDD", "U+10CDE", "U+10CDF", "U+10CE0", "U+10CE1", "U+10CE2",
    "U+10CE3", "U+10CE4", "U+10CE5", "U+10CE6", "U+10CE7", "U+10CE8",
    "U+10CE9", "U+10CEA", "U+10CEB", "U+10CEC", "U+10CED", "U+10CEE",
    "U+10CEF", "U+10CF0", "U+10CF1", "U+10CF2", "U+118A0", "U+118A1",
    "U+118A2", "U+118A3", "U+118A4", "U+118A5", "U+118A6", "U+118A7",
    "U+118A8", "U+118A9", "U+118AA", "U+118AB", "U+118AC", "U+118AD",
    "U+118AE", "U+118AF", "U+118B0", "U+118B1", "U+118B2", "U+118B3",
    "U+118B4", "U+118B5", "U+118B6", "U+118B7", "U+118B8", "U+118B9",
    "U+118BA", "U+118BB", "U+118BC", "U+118BD", "U+118BE", "U+118BF",
    "U+118C0", "U+118C1", "U+118C2", "U+118C3", "U+118C4", "U+118C5",
    "U+118C6", "U+118C7", "U+118C8", "U+118C9", "U+118CA", "U+118CB",
    "U+118CC", "U+118CD", "U+118CE", "U+118CF", "U+118D0", "U+118D1",
    "U+118D2", "U+118D3", "U+118D4", "U+118D5", "U+118D6", "U+118D7",
    "U+118D8", "U+118D9", "U+118DA", "U+118DB", "U+118DC", "U+118DD",
    "U+118DE", "U+118DF", "U+16E40", "U+16E41", "U+16E42", "U+16E43",
    "U+16E44", "U+16E45", "U+16E46", "U+16E47", "U+16E48", "U+16E49",
    "U+16E4A", "U+16E4B", "U+16E4C", "U+16E4D", "U+16E4E", "U+16E4F",
    "U+16E50", "U+16E51", "U+16E52", "U+16E53", "U+16E54", "U+16E55",
    "U+16E56", "U+16E57", "U+16E58", "U+16E59", "U+16E5A", "U+16E5B",
    "U+16E5C", "U+16E5D", "U+16E5E", "U+16E5F", "U+16E60", "U+16E61",
    "U+16E62", "U+16E63", "U+16E64", "U+16E65", "U+16E66", "U+16E67",
    "U+16E68", "U+16E69", "U+16E6A", "U+16E6B", "U+16E6C", "U+16E6D",
    "U+16E6E", "U+16E6F", "U+16E70", "U+16E71", "U+16E72", "U+16E73",
    "U+16E74", "U+16E75", "U+16E76", "U+16E77", "U+16E78", "U+16E79",
    "U+16E7A", "U+16E7B", "U+16E7C", "U+16E7D", "U+16E7E", "U+16E7F",
    "U+1E900", "U+1E901", "U+1E902", "U+1E903", "U+1E904", "U+1E905",
    "U+1E906", "U+1E907", "U+1E908", "U+1E909", "U+1E90A", "U+1E90B",
    "U+1E90C", "U+1E90D", "U+1E90E", "U+1E90F", "U+1E910", "U+1E911",
    "U+1E912", "U+1E913", "U+1E914", "U+1E915", "U+1E916", "U+1E917",
    "U+1E918", "U+1E919", "U+1E91A", "U+1E91B", "U+1E91C", "U+1E91D",
    "U+1E91E", "U+1E91F", "U+1E920", "U+1E921", "U+1E922", "U+1E923",
    "U+1E924", "U+1E925", "U+1E926", "U+1E927", "U+1E928", "U+1E929",
    "U+1E92A", "U+1E92B", "U+1E92C", "U+1E92D", "U+1E92E", "U+1E92F",
    "U+1E930", "U+1E931", "U+1E932", "U+1E933", "U+1E934", "U+1E935",
    "U+1E936", "U+1E937", "U+1E938", "U+1E939", "U+1E93A", "U+1E93B",
    "U+1E93C", "U+1E93D", "U+1E93E", "U+1E93F", "U+1E940", "U+1E941",
    "U+1E942", "U+1E943">>

NamedCodes == <<256, 257, 258, 259, 260, 261, 262, 263, 264, 265, 266, 267,
    268, 269, 270, 271, 272, 273, 274, 275, 276, 277, 278, 279, 280, 281, 282,
    283, 284, 285, 286, 287, 288, 289, 290, 291, 292, 293, 294, 295, 296, 297,
    298, 299, 300, 301, 302, 303, 305, 306, 307, 308, 309, 310, 311, 313, 314,
    315, 316, 317, 318, 319, 320, 321, 322, 323, 324, 325, 326, 327, 328, 330,
    331, 332, 333, 334, 335, 336, 337, 338, 339, 340, 341, 342, 343, 344, 345,
    346, 347, 348, 349, 350, 351, 352, 353, 354, 355, 356, 357, 358, 359, 360,
    361, 362, 363, 364, 365, 366, 367, 368, 369, 370, 371, 372, 373, 374, 375,
    376, 377, 378, 379, 380, 381, 382, 383, 384, 385, 386, 387, 388, 389, 390,
    391, 392, 393, 394, 395, 396, 398, 399, 400, 401, 402, 403, 404, 405, 406,
    407, 408, 409, 410, 412, 413, 414, 415, 416, 417, 418, 419, 420, 421, 422,
    423, 424, 425, 428, 429, 430, 431, 432, 433, 434, 435, 436, 437, 438, 439,
    440, 441, 444, 445, 447, 452, 453, 454, 455, 456, 457, 458, 459, 460, 461,
    462, 463, 464, 465, 466, 467, 468, 469, 470, 471, 472, 473, 474, 475, 476,
    477, 478, 479, 480, 481, 482, 483, 484, 485, 486, 487, 488, 489, 490, 491,
    492, 493, 494, 495, 497, 498, 499, 500, 501, 502, 503, 504, 505, 506, 507,
    508, 509, 510, 511, 512, 513, 514, 515, 516, 517, 518, 519, 520, 521, 522,
    523, 524, 525, 526, 527, 528, 529, 530, 531, 532, 533, 534, 535, 536, 537,
    538, 539, 540, 541, 542, 543, 544, 546, 547, 548, 549, 550, 551, 552, 553,
    554, 555, 556, 557, 558, 559, 560, 561, 562, 563, 570, 571, 572, 573, 574,
    575, 576, 577, 578, 579, 580, 581, 582, 583, 584, 585, 586, 587, 588, 589,
    590, 591, 592, 593, 594, 595, 596, 598, 599, 601, 603, 604, 608, 609, 611,
    613, 614, 616, 617, 618, 619, 620, 623, 625, 626, 629, 637, 640, 642, 643,
    647, 648, 649, 650, 651, 652, 658, 669, 670, 837, 880, 881, 882, 883, 886,
    887, 891, 892, 893, 895, 902, 904, 905, 906, 908, 910, 911, 913, 914, 915,
    916, 917, 918, 919, 920, 921, 922, 923, 924, 925, 926, 927, 928, 929, 931,
    932, 933, 934, 935, 936, 937, 938, 939, 940, 941, 942, 943, 945, 946, 947,
    948, 949, 950, 951, 952, 953, 954, 955, 956, 957, 958, 959, 960, 961, 962,
    963, 964, 965, 966, 967, 968, 969, 970, 971, 972, 973, 974, 975, 976, 977,
    981, 982, 983, 984, 985, 986, 987, 988, 989, 990, 991, 992, 993, 994, 995,
    996, 997, 998, 999, 1000, 1001, 1002, 1003, 1004, 1005, 1006, 1007, 1008,
    1009, 1010, 1011, 1013, 1015, 1016, 1017, 1018, 1019, 1021, 1022, 1023,
    1024, 1025, 1026, 1027, 1028, 1029, 1030, 1031, 1032, 1033, 1034, 1035,
    1036, 1037, 1038, 1039, 1040, 1041, 1042, 1043, 1044, 1045, 1046, 1047,
    1048, 1049, 1050, 1051, 1052, 1053, 1054, 1055, 1056, 1057, 1058, 1059,
    1060, 1061, 1062, 1063, 1064, 1065, 1066, 1067, 1068, 1069, 1070, 1071,
    1072, 1073, 1074, 1075, 1076, 1077, 1078, 1079, 1080, 1081, 1082, 1083,
    1084, 1085, 1086, 1087, 1088, 1089, 1090, 1091, 1092, 1093, 1094, 1095,
    1096, 1097, 1098, 1099, 1100, 1101, 1102, 1103, 1104, 1105, 1106, 1107,
    1108, 1109, 1110, 1111, 1112, 1113, 1114, 1115, 1116, 1117, 1118, 1119,
    1120, 1121, 1122, 1123, 1124, 1125, 1126, 1127, 1128, 1129, 1130, 1131,
    1132, 1133, 1134, 1135, 1136, 1137, 1138, 1139, 1140, 1141, 1142, 1143,
    1144, 1145, 1146, 1147, 1148, 1149, 1150, 1151, 1152, 1153, 1162, 1163,
    1164, 1165, 1166, 1167, 1168, 1169, 1170, 1171, 1172, 1173, 1174, 1175,
    1176, 1177, 1178, 1179, 1180, 1181, 1182, 1183, 1184, 1185, 1186, 1187,
    1188, 1189, 1190, 1191, 1192, 1193, 1194, 1195, 1196, 1197, 1198, 1199,
    1200, 1201, 1202, 1203, 1204, 1205, 1206, 1207, 1208, 1209, 1210, 1211,
    1212, 1213, 1214, 1215, 1216, 1217, 1218, 1219, 1220, 1221, 1222, 1223,
    1224, 1225, 1226, 1227, 1228, 1229, 1230, 1231, 1232, 1233, 1234, 1235,
    1236, 1237, 1238, 1239, 1240, 1241, 1242, 1243, 1244, 1245, 1246, 1247,
    1248, 1249, 1250, 1251, 1252, 1253, 1254, 1255, 1256, 1257, 1258, 1259,
    1260, 1261, 1262, 1263, 1264, 1265, 1266, 1267, 1268, 1269, 1270, 1271,
    1272, 1273, 1274, 1275, 1276, 1277, 1278, 1279, 1280, 1281, 1282, 1283,
    1284, 1285, 1286, 1287, 1288, 1289, 1290, 1291, 1292, 1293, 1294, 1295,
    1296, 1297, 1298, 1299, 1300, 1301, 1302, 1303, 1304, 1305, 1306, 1307,
    1308, 1309, 1310, 1311, 1312, 1313, 1314, 1315, 1316, 1317, 1318, 1319,
    1320, 1321, 1322, 1323, 1324, 1325, 1326, 1327, 1329, 1330, 1331, 1332,
    1333, 1334, 1335, 1336, 1337, 1338, 1339, 1340, 1341, 1342, 1343, 1344,
    1345, 1346, 1347, 1348, 1349, 1350, 1351, 1352, 1353, 1354, 1355, 1356,
    1357, 1358, 1359, 1360, 1361, 1362, 1363, 1364, 1365, 1366, 1377, 1378,
    1379, 1380, 1381, 1382, 1383, 1384, 1385, 1386, 1387, 1388, 1389, 1390,
    1391, 1392, 1393, 1394, 1395, 1396, 1397, 1398, 1399, 1400, 1401, 1402,
    1403, 1404, 1405, 1406, 1407, 1408, 1409, 1410, 1411, 1412, 1413, 1414,
    4256, 4257, 4258, 4259, 4260, 4261, 4262, 4263, 4264, 4265, 4266, 4267,
    4268, 4269, 4270, 4271, 4272, 4273, 4274, 4275, 4276, 4277, 4278, 4279,
    4280, 4281, 4282, 4283, 4284, 4285, 4286, 4287, 4288, 4289, 4290, 4291,
    4292, 4293, 4295, 4301, 4304, 4305, 4306, 4307, 4308, 4309, 4310, 4311,
    4312, 4313, 4314, 4315, 4316, 4317, 4318, 4319, 4320, 4321, 4322, 4323,
    4324, 4325, 4326, 4327, 4328, 4329, 4330, 4331, 4332, 4333, 4334, 4335,
    4336, 4337, 4338, 4339, 4340, 4341, 4342, 4343, 4344, 4345, 4346, 4349,
    4350, 4351, 5024, 5025, 5026, 5027, 5028, 5029, 5030, 5031, 5032, 5033,
    5034, 5035, 5036, 5037, 5038, 5039, 5040, 5041, 5042, 5043, 5044, 5045,
    5046, 5047, 5048, 5049, 5050, 5051, 5052, 5053, 5054, 5055, 5056, 5057,
    5058, 5059, 5060, 5061, 5062, 5063, 5064, 5065, 5066, 5067, 5068, 5069,
    5070, 5071, 5072, 5073, 5074, 5075, 5076, 5077, 5078, 5079, 5080, 5081,
    5082, 5083, 5084, 5085, 5086, 5087, 5088, 5089, 5090, 5091, 5092, 5093,
    5094, 5095, 5096, 5097, 5098, 5099, 5100, 5101, 5102, 5103, 5104, 5105,
    5106, 5107, 5108, 5109, 5112, 5113, 5114, 5115, 5116, 5117, 5760, 7296,
    7297, 7298, 7299, 7300, 7301, 7302, 7303, 7304, 7312, 7313, 7314, 7315,
    7316, 7317, 7318, 7319, 7320, 7321, 7322, 7323, 7324, 7325, 7326, 7327,
    7328, 7329, 7330, 7331, 7332, 7333, 7334, 7335, 7336, 7337, 7338, 7339,
    7340, 7341, 7342, 7343, 7344, 7345, 7346, 7347, 7348, 7349, 7350, 7351,
    7352, 7353, 7354, 7357, 7358, 7359, 7545, 7549, 7566, 7680, 7681, 7682,
    7683, 7684, 7685, 7686, 7687, 7688, 7689, 7690, 7691, 7692, 7693, 7694,
    7695, 7696, 7697, 7698, 7699, 7700, 7701, 7702, 7703, 7704, 7705, 7706,
    7707, 7708, 7709, 7710, 7711, 7712, 7713, 7714, 7715, 7716, 7717, 7718,
    7719, 7720, 7721, 7722, 7723, 7724, 7725, 7726, 7727, 7728, 7729, 7730,
    7731, 7732, 7733, 7734, 7735, 7736, 7737, 7738, 7739, 7740, 7741, 7742,
    7743, 7744, 7745, 7746, 7747, 7748, 7749, 7750, 7751, 7752, 7753, 7754,
    7755, 7756, 7757, 7758, 7759, 7760, 7761, 7762, 7763, 7764, 7765, 7766,
    7767, 7768, 7769, 7770, 7771, 7772, 7773, 7774, 7775, 7776, 7777, 7778,
    7779, 7780, 7781, 7782, 7783, 7784, 7785, 7786, 7787, 7788, 7789, 7790,
    7791, 7792, 7793, 7794, 7795, 7796, 7797, 7798, 7799, 7800, 7801, 7802,
    7803, 7804, 7805, 7806, 7807, 7808, 7809, 7810, 7811, 7812, 7813, 7814,
    7815, 7816, 7817, 7818, 7819, 7820, 7821, 7822, 7823, 7824, 7825, 7826,
    7827, 7828, 7829, 7835, 7840, 7841, 7842, 7843, 7844, 7845, 7846, 7847,
    7848, 7849, 7850, 7851, 7852, 7853, 7854, 7855, 7856, 7857, 7858, 7859,
    7860, 7861, 7862, 7863, 7864, 7865, 7866, 7867, 7868, 7869, 7870, 7871,
    7872, 7873, 7874, 7875, 7876, 7877, 7878, 7879, 7880, 7881, 7882, 7883,
    7884, 7885, 7886, 7887, 7888, 7889, 7890, 7891, 7892, 7893, 7894, 7895,
    7896, 7897, 7898, 7899, 7900, 7901, 7902, 7903, 7904, 7905, 7906, 7907,
    7908, 7909, 7910, 7911, 7912, 7913, 7914, 7915, 7916, 7917, 7918, 7919,
    7920, 7921, 7922, 7923, 7924, 7925, 7926, 7927, 7928, 7929, 7930, 7931,
    7932, 7933, 7934, 7935, 7936, 7937, 7938, 7939, 7940, 7941, 7942, 7943,
    7944, 7945, 7946, 7947, 7948, 7949, 7950, 7951, 7952, 7953, 7954, 7955,
    7956, 7957, 7960, 7961, 7962, 7963, 7964, 7965, 7968, 7969, 7970, 7971,
    7972, 7973, 7974, 7975, 7976, 7977, 7978, 7979, 7980, 7981, 7982, 7983,
    7984, 7985, 7986, 7987, 7988, 7989, 7990, 7991, 7992, 7993, 7994, 7995,
    7996, 7997, 7998, 7999, 8000, 8001, 8002, 8003, 8004, 8005, 8008, 8009,
    8010, 8011, 8012, 8013, 8017, 8019, 8021, 8023, 8025, 8027, 8029, 8031,
    8032, 8033, 8034, 8035, 8036, 8037, 8038, 8039, 8040, 8041, 8042, 8043,
    8044, 8045, 8046, 8047, 8048, 8049, 8050, 8051, 8052, 8053, 8054, 8055,
    8056, 8057, 8058, 8059, 8060, 8061, 8064, 8065, 8066, 8067, 8068, 8069,
    8070, 8071, 8072, 8073, 8074, 8075, 8076, 8077, 8078, 8079, 8080, 8081,
    8082, 8083, 8084, 8085, 8086, 8087, 8088, 8089, 8090, 8091, 8092, 8093,
    8094, 8095, 8096, 8097, 8098, 8099, 8100, 8101, 8102, 8103, 8104, 8105,
    8106, 8107, 8108, 8109, 8110, 8111, 8112, 8113, 8115, 8120, 8121, 8122,
    8123, 8124, 8126, 8131, 8136, 8137, 8138, 8139, 8140, 8144, 8145, 8152,
    8153, 8154, 8155, 8160, 8161, 8165, 8168, 8169, 8170, 8171, 8172, 8179,
    8184, 8185, 8186, 8187, 8188, 8192, 8193, 8194, 8195, 8196, 8197, 8198,
    8199, 8200, 8201, 8202, 8232, 8233, 8239, 8287, 8498, 8526, 8544, 8545,
    8546, 8547, 8548, 8549, 8550, 8551, 8552, 8553, 8554, 8555, 8556, 8557,
    8558, 8559, 8560, 8561, 8562, 8563, 8564, 8565, 8566, 8567, 8568, 8569,
    8570, 8571, 8572, 8573, 8574, 8575, 8579, 8580, 9398, 9399, 9400, 9401,
    9402, 9403, 9404, 9405, 9406, 9407, 9408, 9409, 9410, 9411, 9412, 9413,
    9414, 9415, 9416, 9417, 9418, 9419, 9420, 9421, 9422, 9423, 9424, 9425,
    9426, 9427, 9428, 9429, 9430, 9431, 9432, 9433, 9434, 9435, 9436, 9437,
    9438, 9439, 9440, 9441, 9442, 9443, 9444, 9445, 9446, 9447, 9448, 9449,
    11264, 11265, 11266, 11267, 11268, 11269, 11270, 11271, 11272, 11273,
    11274, 11275, 11276, 11277, 11278, 11279, 11280, 11281, 11282, 11283,
    11284, 11285, 11286, 11287, 11288, 11289, 11290, 11291, 11292, 11293,
    11294, 11295, 11296, 11297, 11298, 11299, 11300, 11301, 11302, 11303,
    11304, 11305, 11306, 11307, 11308, 11309, 11310, 11311, 11312, 11313,
    11314, 11315, 11316, 11317, 11318, 11319, 11320, 11321, 11322, 11323,
    11324, 11325, 11326, 11327, 11328, 11329, 11330, 11331, 11332, 11333,
    11334, 11335, 11336, 11337, 11338, 11339, 11340, 11341, 11342, 11343,
    11344, 11345, 11346, 11347, 11348, 11349, 11350, 11351, 11352, 11353,
    11354, 11355, 11356, 11357, 11358, 11359, 11360, 11361, 11362, 11363,
    11364, 11365, 11366, 11367, 11368, 11369, 11370, 11371, 11372, 11373,
    11374, 11375, 11376, 11378, 11379, 11381, 11382, 11390, 11391, 11392,
    11393, 11394, 11395, 11396, 11397, 11398, 11399, 11400, 11401, 11402,
    11403, 11404, 11405, 11406, 11407, 11408, 11409, 11410, 11411, 11412,
    11413, 11414, 11415, 11416, 11417, 11418, 11419, 11420, 11421, 11422,
    11423, 11424, 11425, 11426, 11427, 11428, 11429, 11430, 11431, 11432,
    11433, 11434, 11435, 11436, 11437, 11438, 11439, 11440, 11441, 11442,
    11443, 11444, 11445, 11446, 11447, 11448, 11449, 11450, 11451, 11452,
    11453, 11454, 11455, 11456, 11457, 11458, 11459, 11460, 11461, 11462,
    11463, 11464, 11465, 11466, 11467, 11468, 11469, 11470, 11471, 11472,
    11473, 11474, 11475, 11476, 11477, 11478, 11479, 11480, 11481, 11482,
    11483, 11484, 11485, 11486, 11487, 11488, 11489, 11490, 11491, 11499,
    11500, 11501, 11502, 11506, 11507, 11520, 11521, 11522, 11523, 11524,
    11525, 11526, 11527, 11528, 11529, 11530, 11531, 11532, 11533, 11534,
    11535, 11536, 11537, 11538, 11539, 11540, 11541, 11542, 11543, 11544,
    11545, 11546, 11547, 11548, 11549, 11550, 11551, 11552, 11553, 11554,
    11555, 11556, 11557, 11559, 11565, 12288, 42560, 42561, 42562, 42563,
    42564, 42565, 42566, 42567, 42568, 42569, 42570, 42571, 42572, 42573,
    42574, 42575, 42576, 42577, 42578, 42579, 42580, 42581, 42582, 42583,
    42584, 42585, 42586, 42587, 42588, 42589, 42590, 42591, 42592, 42593,
    42594, 42595, 42596, 42597, 42598, 42599, 42600, 42601, 42602, 42603,
    42604, 42605, 42624, 42625, 42626, 42627, 42628, 42629, 42630, 42631,
    42632, 42633, 42634, 42635, 42636, 42637, 42638, 42639, 42640, 42641,
    42642, 42643, 42644, 42645, 42646, 42647, 42648, 42649, 42650, 42651,
    42786, 42787, 42788, 42789, 42790, 42791, 42792, 42793, 42794, 42795,
    42796, 42797, 42798, 42799, 42802, 42803, 42804, 42805, 42806, 42807,
    42808, 42809, 42810, 42811, 42812, 42813, 42814, 42815, 42816, 42817,
    42818, 42819, 42820, 42821, 42822, 42823, 42824, 42825, 42826, 42827,
    42828, 42829, 42830, 42831, 42832, 42833, 42834, 42835, 42836, 42837,
    42838, 42839, 42840, 42841, 42842, 42843, 42844, 42845, 42846, 42847,
    42848, 42849, 42850, 42851, 42852, 42853, 42854, 42855, 42856, 42857,
    42858, 42859, 42860, 42861, 42862, 42863, 42873, 42874, 42875, 42876,
    42877, 42878, 42879, 42880, 42881, 42882, 42883, 42884, 42885, 42886,
    42887, 42891, 42892, 42893, 42896, 42897, 42898, 42899, 42900, 42902,
    42903, 42904, 42905, 42906, 42907, 42908, 42909, 42910, 42911, 42912,
    42913, 42914, 42915, 42916, 42917, 42918, 42919, 42920, 42921, 42922,
    42923, 42924, 42925, 42926, 42928, 42929, 42930, 42931, 42932, 42933,
    42934, 42935, 42936, 42937, 42938, 42939, 42940, 42941, 42942, 42943,
    42944, 42945, 42946, 42947, 42948, 42949, 42950, 42951, 42952, 42953,
    42954, 42960, 42961, 42966, 42967, 42968, 42969, 42997, 42998, 43859,
    43888, 43889, 43890, 43891, 43892, 43893, 43894, 43895, 43896, 43897,
    43898, 43899, 43900, 43901, 43902, 43903, 43904, 43905, 43906, 43907,
    43908, 43909, 43910, 43911, 43912, 43913, 43914, 43915, 43916, 43917,
    43918, 43919, 43920, 43921, 43922, 43923, 43924, 43925, 43926, 43927,
    43928, 43929, 43930, 43931, 43932, 43933, 43934, 43935, 43936, 43937,
    43938, 43939, 43940, 43941, 43942, 43943, 43944, 43945, 43946, 43947,
    43948, 43949, 43950, 43951, 43952, 43953, 43954, 43955, 43956, 43957,
    43958, 43959, 43960, 43961, 43962, 43963, 43964, 43965, 43966, 43967,
    65313, 65314, 65315, 65316, 65317, 65318, 65319, 65320, 65321, 65322,
    65323, 65324, 65325, 65326, 65327, 65328, 65329, 65330, 65331, 65332,
    65333, 65334, 65335, 65336, 65337, 65338, 65345, 65346, 65347, 65348,
    65349, 65350, 65351, 65352, 65353, 65354, 65355, 65356, 65357, 65358,
    65359, 65360, 65361, 65362, 65363, 65364, 65365, 65366, 65367, 65368,
    65369, 65370, 66560, 66561, 66562, 66563, 66564, 66565, 66566, 66567,
    66568, 66569, 66570, 66571, 66572, 66573, 66574, 66575, 66576, 66577,
    66578, 66579, 66580, 66581, 66582, 66583, 66584, 66585, 66586, 66587,
    66588, 66589, 66590, 66591, 66592, 66593, 66594, 66595, 66596, 66597,
    66598, 66599, 66600, 66601, 66602, 66603, 66604, 66605, 66606, 66607,
    66608, 66609, 66610, 66611, 66612, 66613, 66614, 66615, 66616, 66617,
    66618, 66619, 66620, 66621, 66622, 66623, 66624, 66625, 66626, 66627,
    66628, 66629, 66630, 66631, 66632, 66633, 66634, 66635, 66636, 66637,
    66638, 66639, 66736, 66737, 66738, 66739, 66740, 66741, 66742, 66743,
    66744, 66745, 66746, 66747, 66748, 66749, 66750, 66751, 66752, 66753,
    66754, 66755, 66756, 66757, 66758, 66759, 66760, 66761, 66762, 66763,
    66764, 66765, 66766, 66767, 66768, 66769, 66770, 66771, 66776, 66777,
    66778, 66779, 66780, 66781, 66782, 66783, 66784, 66785, 66786, 66787,
    66788, 66789, 66790, 66791, 66792, 66793, 66794, 66795, 66796, 66797,
    66798, 66799, 66800, 66801, 66802, 66803, 66804, 66805, 66806, 66807,
    66808, 66809, 66810, 66811, 66928, 66929, 66930, 66931, 66932, 66933,
    66934, 66935, 66936, 66937, 66938, 66940, 66941, 66942, 66943, 66944,
    66945, 66946, 66947, 66948, 66949, 66950, 66951, 66952, 66953, 66954,
    66956, 66957, 66958, 66959, 66960, 66961, 66962, 66964, 66965, 66967,
    66968, 66969, 66970, 66971, 66972, 66973, 66974, 66975, 66976, 66977,
    66979, 66980, 66981, 66982, 66983, 66984, 66985, 66986, 66987, 66988,
    66989, 66990, 66991, 66992, 66993, 66995, 66996, 66997, 66998, 66999,
    67000, 67001, 67003, 67004, 68736, 68737, 68738, 68739, 68740, 68741,
    68742, 68743, 68744, 68745, 68746, 68747, 68748, 68749, 68750, 68751,
    68752, 68753, 68754, 68755, 68756, 68757, 68758, 68759, 68760, 68761,
    68762, 68763, 68764, 68765, 68766, 68767, 68768, 68769, 68770, 68771,
    68772, 68773, 68774, 68775, 68776, 68777, 68778, 68779, 68780, 68781,
    68782, 68783, 68784, 68785, 68786, 68800, 68801, 68802, 68803, 68804,
    68805, 68806, 68807, 68808, 68809, 68810, 68811, 68812, 68813, 68814,
    68815, 68816, 68817, 68818, 68819, 68820, 68821, 68822, 68823, 68824,
    68825, 68826, 68827, 68828, 68829, 68830, 68831, 68832, 68833, 68834,
    68835, 68836, 68837, 68838, 68839, 68840, 68841, 68842, 68843, 68844,
    68845, 68846, 68847, 68848, 68849, 68850, 71840, 71841, 71842, 71843,
    71844, 71845, 71846, 71847, 71848, 71849, 71850, 71851, 71852, 71853,
    71854, 71855, 71856, 71857, 71858, 71859, 71860, 71861, 71862, 71863,
    71864, 71865, 71866, 71867, 71868, 71869, 71870, 71871, 71872, 71873,
    71874, 71875, 71876, 71877, 71878, 71879, 71880, 71881, 71882, 71883,
    71884, 71885, 71886, 71887, 71888, 71889, 71890, 71891, 71892, 71893,
    71894, 71895, 71896, 71897, 71898, 71899, 71900, 71901, 71902, 71903,
    93760, 93761, 93762, 93763, 93764, 93765, 93766, 93767, 93768, 93769,
    93770, 93771, 93772, 93773, 93774, 93775, 93776, 93777, 93778, 93779,
    93780, 93781, 93782, 93783, 93784, 93785, 93786, 93787, 93788, 93789,
    93790, 93791, 93792, 93793, 93794, 93795, 93796, 93797, 93798, 93799,
    93800, 93801, 93802, 93803, 93804, 93805, 93806, 93807, 93808, 93809,
    93810, 93811, 93812, 93813, 93814, 93815, 93816, 93817, 93818, 93819,
    93820, 93821, 93822, 93823, 125184, 125185, 125186, 125187, 125188,
    125189, 125190, 125191, 125192, 125193, 125194, 125195, 125196, 125197,
    125198, 125199, 125200, 125201, 125202, 125203, 125204, 125205, 125206,
    125207, 125208, 125209, 125210, 125211, 125212, 125213, 125214, 125215,
    125216, 125217, 125218, 125219, 125220, 125221, 125222, 125223, 125224,
    125225, 125226, 125227, 125228, 125229, 125230, 125231, 125232, 125233,
    125234, 125235, 125236, 125237, 125238, 125239, 125240, 125241, 125242,
    125243, 125244, 125245, 125246, 125247, 125248, 125249, 125250, 125251>>

\* The place of x in the sequence s.
IndexOf(s, x) == CHOOSE i \in 1..Len(s) : s[i] = x

\* The code point of a character.
CodePoint(c) ==
    IF \E i \in 1..Len(AsciiChars) : AsciiChars[i] = c
    THEN 31 + IndexOf(AsciiChars, c)
    ELSE IF \E i \in 1..Len(ControlChars) : ControlChars[i] = c
    THEN 8 + IndexOf(ControlChars, c)
    ELSE IF c = NextLine THEN 133
    ELSE IF \E i \in 1..Len(Latin1Chars) : Latin1Chars[i] = c
    THEN 159 + IndexOf(Latin1Chars, c)
    ELSE NamedCodes[IndexOf(NamedChars, c)]

\* The bytes of a code point in UTF-8.
EncodeRune(r) ==
    IF r < 128 THEN <<r>>
    ELSE IF r < 2048 THEN <<192 + (r \div 64), 128 + (r % 64)>>
    ELSE IF r < 65536
    THEN <<224 + (r \div 4096), 128 + ((r \div 64) % 64), 128 + (r % 64)>>
    ELSE <<240 + (r \div 262144), 128 + ((r \div 4096) % 64),
           128 + ((r \div 64) % 64), 128 + (r % 64)>>

\* []byte(s): the bytes of a string.
RECURSIVE Bytes(_)
Bytes(s) ==
    IF s = <<>> THEN <<>>
    ELSE EncodeRune(CodePoint(Head(s))) \o Bytes(Tail(s))

(***************************************************************************)
(* SHA-256 (FIPS 180-4), on words of 32 bits kept as two halves of 16      *)
(***************************************************************************)

RECURSIVE xor16(_, _, _)
xor16(a, b, n) ==
    IF n = 0 THEN 0
    ELSE ((a + b) % 2) + 2 * xor16(a \div 2, b \div 2, n - 1)

RECURSIVE and16(_, _, _)
and16(a, b, n) ==
    IF n = 0 THEN 0
    ELSE ((a % 2) * (b % 2)) + 2 * and16(a \div 2, b \div 2, n - 1)

Xor(x, y) == <<xor16(x[1], y[1], 16), xor16(x[2], y[2], 16)>>
And(x, y) == <<and16(x[1], y[1], 16), and16(x[2], y[2], 16)>>
Not(x)    == <<65535 - x[1], 65535 - x[2]>>

\* Addition modulo 2^32.
Add(x, y) ==
    LET lo == x[2] + y[2]
    IN  <<(x[1] + y[1] + (lo \div 65536)) % 65536, lo % 65536>>

ShiftRight(x, k) ==
    IF k >= 16 THEN <<0, x[1] \div (2^(k - 16))>>
    ELSE <<x[1] \div (2^k), (x[2] \div (2^k)) + (x[1] % (2^k)) * (2^(16 - k))>>

RotateRight(x, k) ==
    LET y == IF k >= 16 THEN <<x[2], x[1]>> ELSE x
        j == k % 16
    IN  IF j = 0 THEN y
        ELSE <<(y[1] \div (2^j)) + (y[2] % (2^j)) * (2^(16 - j)),
               (y[2] \div (2^j)) + (y[1] % (2^j)) * (2^(16 - j))>>

\* The round constants and the initial hash value.
sha256K == <<<<17034, 12184>>, <<28983, 17553>>, <<46528, 64463>>,
    <<59829, 56229>>, <<14678, 49755>>, <<23025, 4593>>, <<37439, 33444>>,
    <<43804, 24277>>, <<55303, 43672>>, <<4739, 23297>>, <<9265, 34238>>,
    <<21772, 32195>>, <<29374, 23924>>, <<32990, 45566>>, <<39900, 1703>>,
    <<49563, 61812>>, <<58523, 27073>>, <<61374, 18310>>, <<4033, 40390>>,
    <<9228, 41420>>, <<11753, 11375>>, <<19060, 33962>>, <<23728, 43484>>,
    <<30457, 35034>>, <<38974, 20818>>, <<43057, 50797>>, <<45059, 10184>>,
    <<48985, 32711>>, <<50912, 3059>>, <<54695, 37191>>, <<1738, 25425>>,
    <<5161, 10599>>, <<10167, 2693>>, <<11803, 8504>>, <<19756, 28156>>,
    <<21304, 3347>>, <<25866, 29524>>, <<30314, 2747>>, <<33218, 51502>>,
    <<37490, 11397>>, <<41663, 59553>>, <<43034, 26187>>, <<49739, 35696>>,
    <<51052, 20899>>, <<53650, 59417>>, <<54937, 1572>>, <<62478, 13701>>,
    <<4202, 41072>>, <<6564, 49430>>, <<7735, 27656>>, <<10056, 30540>>,
    <<13488, 48309>>, <<14620, 3251>>, <<20184, 43594>>, <<23452, 51791>>,
    <<26670, 28659>>, <<29839, 33518>>, <<30885, 25455>>, <<33992, 30740>>,
    <<36039, 520>>, <<37054, 65530>>, <<42064, 27883>>, <<48889, 41975>>,
    <<50801, 30962>>>>

sha256Init == <<<<27145, 58983>>, <<47975, 44677>>, <<15470, 62322>>,
    <<42319, 62778>>, <<20750, 21119>>, <<39685, 26764>>, <<8067, 55723>>,
    <<23520, 52505>>>>

smallSigma0(x) == Xor(Xor(RotateRight(x, 7), RotateRight(x, 18)), ShiftRight(x, 3))
smallSigma1(x) == Xor(Xor(RotateRight(x, 17), RotateRight(x, 19)), ShiftRight(x, 10))
bigSigma0(x)   == Xor(Xor(RotateRight(x, 2), RotateRight(x, 13)), RotateRight(x, 22))
bigSigma1(x)   == Xor(Xor(RotateRight(x, 6), RotateRight(x, 11)), RotateRight(x, 25))
Ch(x, y, z)    == Xor(And(x, y), And(Not(x), z))
Maj(x, y, z)   == Xor(Xor(And(x, y), And(x, z)), And(y, z))

\* The message schedule, from the 16 words of a block.
RECURSIVE sha256Schedule(_)
sha256Schedule(W) ==
    IF Len(W) = 64 THEN W
    ELSE LET t == Len(W) + 1
             x == Add(Add(smallSigma1(W[t - 2]), W[t - 7]),
                      Add(smallSigma0(W[t - 15]), W[t - 16]))
         IN  sha256Schedule(Append(W, x))

\* The rounds t to 64 on the eight working variables s (the test of their
\* number has them evaluated round by round).
RECURSIVE sha256Rounds(_, _, _)
sha256Rounds(s, W, t) ==
    IF t > 64 \/ Len(s) # 8 THEN s
    ELSE LET T1 == Add(Add(Add(s[8], bigSigma1(s[5])), Ch(s[5], s[6], s[7])),
                       Add(sha256K[t], W[t]))
             T2 == Add(bigSigma0(s[1]), Maj(s[1], s[2], s[3]))
         IN  sha256Rounds(<<Add(T1, T2), s[1], s[2], s[3],
                            Add(s[4], T1), s[5], s[6], s[7]>>, W, t + 1)

\* The hash value after a block of 64 bytes.
sha256Block(H, b) ==
    LET W == sha256Schedule(<<
                 <<b[1] * 256 + b[2], b[3] * 256 + b[4]>>,
                 <<b[5] * 256 + b[6], b[7] * 256 + b[8]>>,
                 <<b[9] * 256 + b[10], b[11] * 256 + b[12]>>,
                 <<b[13] * 256 + b[14], b[15] * 256 + b[16]>>,
                 <<b[17] * 256 + b[18], b[19] * 256 + b[20]>>,
                 <<b[21] * 256 + b[22], b[23] * 256 + b[24]>>,
                 <<b[25] * 256 + b[26], b[27] * 256 + b[28]>>,
                 <<b[29] * 256 + b[30], b[31] * 256 + b[32]>>,
                 <<b[33] * 256 + b[34], b[35] * 256 + b[36]>>,
                 <<b[37] * 256 + b[38], b[39] * 256 + b[40]>>,
                 <<b[41] * 256 + b[42], b[43] * 256 + b[44]>>,
                 <<b[45] * 256 + b[46], b[47] * 256 + b[48]>>,
                 <<b[49] * 256 + b[50], b[51] * 256 + b[52]>>,
                 <<b[53] * 256 + b[54], b[55] * 256 + b[56]>>,
                 <<b[57] * 256 + b[58], b[59] * 256 + b[60]>>,
                 <<b[61] * 256 + b[62], b[63] * 256 + b[64]>> >>)
        s == sha256Rounds(H, W, 1)
    IN  <<Add(H[1], s[1]), Add(H[2], s[2]), Add(H[3], s[3]), Add(H[4], s[4]),
          Add(H[5], s[5]), Add(H[6], s[6]), Add(H[7], s[7]), Add(H[8], s[8])>>

RECURSIVE sha256Blocks(_, _)
sha256Blocks(H, bytes) ==
    IF bytes = <<>> \/ Len(H) # 8 THEN H
    ELSE sha256Blocks(sha256Block(H, SubSeq(bytes, 1, 64)),
                      SubSeq(bytes, 65, Len(bytes)))

\* The message padded to whole blocks: 0x80, zeros, and the length in bits
\* as 8 bytes.
sha256Pad(bytes) ==
    LET n == Len(bytes)
        z == (119 - (n % 64)) % 64
        l == 8 * n
    IN  bytes \o <<128>> \o [i \in 1..z |-> 0]
              \o <<0, 0, 0, 0, (l \div 16777216) % 256, (l \div 65536) % 256,
                    (l \div 256) % 256, l % 256>>

\* sha256.Sum256: the eight words of the digest.
Sum256(bytes) == sha256Blocks(sha256Init, sha256Pad(bytes))

HexDigits == <<"0","1","2","3","4","5","6","7","8","9","a","b","c","d","e","f">>

\* hex.EncodeToString of the two bytes of a half word.
HexHalf(h) ==
    <<HexDigits[(h \div 4096) + 1], HexDigits[((h \div 256) % 16) + 1],
      HexDigits[((h \div 16) % 16) + 1], HexDigits[(h % 16) + 1]>>

\* hex.EncodeToString(hash[:8]): the first two words of the digest.
HexOfFirst8(H) ==
    HexHalf(H[1][1]) \o HexHalf(H[1][2]) \o HexHalf(H[2][1]) \o HexHalf(H[2][2])

(***************************************************************************)
(* Duplicate suppressor                                                    *)
(***************************************************************************)

\* Sha256Hex8 is pure: its value on the data the specifications hash most,
\* as HexOfFirst8(Sum256(Bytes(data))) gives it, is looked up here.
DigestMemo ==
    (LineCaret
        :> <<"7","4","c","d","9","e","f","9","c","7","e","1","5","f","5","7">>) @@
    (LineOk
        :> <<"2","6","8","9","3","6","7","b","2","0","5","c","1","6","c","e">>) @@
    (LineOOM
        :> <<"a","0","0","7","3","f","3","e","2","5","7","e","2","b","c","6">>) @@
    (LineOOM \o LineCaret \o LineCaret \o LineCaret
        :> <<"2","3","1","0","8","e","5","5","6","1","7","e","6","7","2","1">>) @@
    (LineThread
        :> <<"5","3","7","3","c","7","f","8","a","5","a","6","9","0","1","9">>) @@
    (LineCaret \o LineOOM \o LineCaret \o LineCaret
        :> <<"c","2","d","4","c","9","b","e","1","7","6","0","d","e","d","4">>) @@
    (LineCaret \o LineCaret \o LineOOM \o LineCaret
        :> <<"a","3","4","4","5","0","f","6","c","3","2","f","a","3","7","3">>) @@
    (LineCaret \o LineCaret \o LineCaret \o LineOOM
        :> <<"1","f","f","a","d","4","b","4","9","f","f","d","7","4","2","0">>) @@
    (LinePanic
        :> <<"0","1","b","7","4","8","5","b","6","e","6","7","a","2","a","7">>) @@
    (LineOOM \o LineCaret \o LineCaret \o LineOk
        :> <<"c","1","b","9","3","0","5","3","d","9","4","4","9","e","6","9">>) @@
    (LineOOM \o LineCaret \o LineOk \o LineCaret
        :> <<"a","7","f","2","b","3","b","a","8","9","e","2","7","0","4","4">>) @@
    (LineOOM \o LineOk \o LineCaret \o LineCaret
        :> <<"4","c","b","1","7","9","e","9","7","6","e","3","d","b","3","d">>) @@
    (LineCaret \o LineCaret \o LineOk \o LineOOM
        :> <<"b","f","7","8","7","9","7","e","8","f","b","9","d","a","7","5">>) @@
    (LineCaret \o LineOk \o LineOOM \o LineCaret
        :> <<"c","6","e","4","a","f","e","7","d","b","9","9","f","6","0","a">>) @@
    (LineCaret \o LineOk \o LineCaret \o LineOOM
        :> <<"b","9","a","9","4","0","9","d","e","e","7","5","2","e","4","0">>) @@
    (LineOk \o LineOOM \o LineCaret \o LineCaret
        :> <<"b","d","a","c","9","6","b","c","1","e","b","1","5","5","d","d">>) @@
    (LineOk \o LineCaret \o LineOOM \o LineCaret
        :> <<"b","2","c","2","9","c","d","1","8","b","b","8","9","e","d","4">>) @@
    (LineOk \o LineCaret \o LineCaret \o LineOOM
        :> <<"f","7","7","d","1","6","f","e","7","0","4","e","9","6","4","a">>) @@
    (LineOOM \o LineOOM \o LineCaret \o LineCaret
        :> <<"c","9","5","6","0","5","a","3","5","b","3","d","d","4","4","6">>) @@
    (LineOOM \o LineCaret \o LineOOM \o LineCaret
        :> <<"9","e","c","7","9","9","0","b","4","3","0","d","3","9","2","d">>) @@
    (LineOOM \o LineCaret \o LineCaret \o LineOOM
        :> <<"b","4","5","2","a","f","a","4","0","0","a","f","1","7","7","d">>) @@
    (LineOOM \o LineCaret \o LineOk \o LineOk
        :> <<"c","8","7","d","d","2","2","9","2","f","3","8","4","6","f","c">>) @@
    (LineOOM \o LineOk \o LineCaret \o LineOk
        :> <<"1","2","c","c","3","6","9","4","a","7","b","a","5","9","1","b">>) @@
    (LineOOM \o LineOk \o LineOk \o LineCaret
        :> <<"0","9","a","1","4","5","a","9","d","e","f","9","f","4","9","6">>) @@
    (LineCaret \o LineOOM \o LineOOM \o LineCaret
        :> <<"d","b","6","0","d","f","0","b","8","c","3","2","1","9","8","5">>) @@
    (LineCaret \o LineOOM \o LineCaret \o LineOOM
        :> <<"a","f","c","e","5","3","f","1","6","5","4","4","2","9","4","2">>) @@
    (LineCaret \o LineCaret \o LineOOM \o LineOOM
        :> <<"b","5","2","4","e","5","3","3","1","3","a","5","b","7","2","e">>) @@
    (LineCaret \o LineOk \o LineOk \o LineOOM
        :> <<"1","9","1","2","d","e","b","b","0","5","4","7","7","a","f","2">>) @@
    (LineOk \o LineCaret \o LineOk \o LineOOM
        :> <<"0","9","2","4","9","4","a","1","3","a","6","1","0","6","3","7">>) @@
    (LineOk \o LineOk \o LineOOM \o LineCaret
        :> <<"3","0","b","b","d","d","8","7","6","3","0","9","f","9","1","b">>) @@
    (LineOk \o LineOk \o LineCaret \o LineOOM
        :> <<"0","5","c","5","3","9","a","0","9","c","c","9","e","e","9","d">>) @@
    (LineOOM \o LineOOM \o LineCaret \o LineOk
        :> <<"8","2","e","b","2","6","3","b","e","0","3","4","7","f","6","a">>) @@
    (LineOOM \o LineOOM \o LineOk \o LineCaret
        :> <<"9","e","0","3","8","a","e","1","3","b","2","d","4","c","c","f">>) @@
    (LineOOM \o LineCaret \o LineOOM \o LineOk
        :> <<"b","d","1","5","8","7","e","2","2","3","d","2","7","8","1","f">>) @@
    (LineOOM \o LineCaret \o LineOk \o LineOOM
        :> <<"c","4","3","f","9","c","2","2","0","f","a","1","a","1","b","d">>) @@
    (LineOOM \o LineOk \o LineOOM \o LineCaret
        :> <<"c","2","5","f","0","f","7","d","8","d","9","6","e","a","c","b">>) @@
    (LineOOM \o LineOk \o LineCaret \o LineOOM
        :> <<"0","6","0","c","a","c","3","0","4","6","5","6","e","c","6","7">>) @@
    (LineOOM \o LineOk \o LineOk \o LineOk
        :> <<"c","7","8","c","1","d","c","e","2","b","6","d","0","1","b","2">>) @@
    (LineCaret \o LineOOM \o LineOk \o LineOOM
        :> <<"d","3","a","b","2","6","d","5","d","0","8","3","0","e","3","b">>) @@
    (LineCaret \o LineOk \o LineOOM \o LineOOM
        :> <<"6","1","b","3","c","8","9","f","a","6","c","8","b","4","d","2">>) @@
    (LineCaret \o LinePanic \o LineCaret \o LineCaret
        :> <<"c","e","5","d","3","2","6","e","a","5","8","f","0","f","6","4">>) @@
    (LineOk \o LineOOM \o LineOOM \o LineCaret
        :> <<"0","b","5","9","9","d","5","e","c","4","f","0","1","b","2","a">>) @@
    (LineOk \o LineOOM \o LineCaret \o LineOOM
        :> <<"e","b","3","6","e","f","f","b","5","b","9","f","e","4","c","f">>) @@
    (LineOk \o LineCaret \o LineOOM \o LineOOM
        :> <<"0","c","c","8","0","f","f","9","d","9","4","2","4","8","1","5">>) @@
    (LineOk \o LineOk \o LineOOM \o LineOk
        :> <<"4","b","a","7","3","f","7","c","a","d","9","f","d","b","b","a">>) @@
    (LineOk \o LineOk \o LineOk \o LineOOM
        :> <<"3","1","d","b","b","7","b","c","1","0","d","2","8","8","b","e">>) @@
    (LineOOM \o LineOOM \o LineOOM \o LineCaret
        :> <<"5","0","0","1","7","5","8","5","f","c","9","a","6","0","d","5">>) @@
    (LineOOM \o LineOOM \o LineCaret \o LineOOM
        :> <<"b","c","d","1","7","8","c","c","7","2","e","8","6","6","e","9">>) @@
    (LineOOM \o LineOOM \o LineOk \o LineOk
        :> <<"d","0","d","6","d","f","c","8","6","f","0","9","4","0","e","a">>) @@
    (LineOOM \o LineCaret \o LineOOM \o LineOOM
        :> <<"d","b","c","c","0","6","9","f","5","0","f","d","c","8","7","8">>) @@
    (LineOOM \o LineOk \o LineOOM \o LineOk
        :> <<"d","7","e","4","b","2","c","a","e","a","9","7","9","a","2","0">>) @@
    (LineOOM \o LineOk \o LineOk \o LineOOM
        :> <<"f","6","f","e","3","4","f","a","9","e","a","4","3","9","b","a">>) @@
    (LineCaret \o LineOOM \o LineOOM \o LineOOM
        :> <<"4","4","1","7","d","c","1","c","a","d","b","c","5","d","d","a">>) @@
    (LineOk \o LineOOM \o LineOk \o LineOOM
        :> <<"7","2","0","d","d","f","6","7","6","4","1","2","8","3","8","4">>) @@
    (LineOk \o LineOk \o LineOOM \o LineOOM
        :> <<"0","3","0","a","2","f","4","7","4","b","5","5","8","e","e","2">>) @@
    (LineOk \o LinePanic \o LineCaret \o LineCaret
        :> <<"1","a","c","2","a","6","f","0","f","f","4","c","1","8","1","f">>) @@
    (LineOOM \o LineOOM \o LineOOM \o LineOk
        :> <<"5","d","a","d","e","1","b","3","7","1","f","3","e","8","2","c">>) @@
    (LineOOM \o LineOOM \o LineOk \o LineOOM
        :> <<"7","3","2","6","0","f","0","6","6","a","b","5","e","0","0","e">>) @@
    (LineOOM \o LineThread \o LineCaret \o LineCaret
        :> <<"f","e","1","4","6","2","9","4","f","6","1","d","9","2","f","d">>) @@
    (LineOOM \o LineOk \o LineOOM \o LineOOM
        :> <<"a","4","f","0","c","0","3","6","9","3","2","8","2","f","c","0">>) @@
    (LineOOM \o LinePanic \o LineCaret \o LineCaret
        :> <<"e","7","b","3","7","9","c","a","7","9","4","0","0","8","6","6">>) @@
    (LineThread \o LineOOM \o LineCaret \o LineCaret
        :> <<"0","8","1","f","0","9","e","b","0","3","2","4","3","5","8","6">>) @@
    (LineThread \o LineCaret \o LineOOM \o LineCaret
        :> <<"3","9","d","a","3","4","d","5","8","6","3","e","9","c","f","0">>) @@
    (LineThread \o LineCaret \o LineCaret \o LineOOM
        :> <<"2","7","7","1","1","f","a","7","4","e","7","b","9","e","e","0">>) @@
    (LineCaret \o LineOOM \o LineCaret \o LinePanic
        :> <<"5","7","5","7","4","1","6","b","b","6","e","7","e","b","3","7">>) @@
    (LineCaret \o LineOOM \o LinePanic \o LineCaret
        :> <<"c","0","0","a","f","b","4","b","a","a","f","9","b","2","8","7">>) @@
    (LineCaret \o LineThread \o LineOOM \o LineCaret
        :> <<"9","b","7","e","2","8","0","8","e","c","b","a","5","a","c","8">>) @@
    (LineCaret \o LineThread \o LineCaret \o LineOOM
        :> <<"a","6","7","3","9","a","c","a","c","4","e","0","9","6","8","e">>) @@
    (LineCaret \o LineCaret \o LineOOM \o LinePanic
        :> <<"f","3","b","a","e","9","7","9","4","1","3","0","5","9","7","7">>) @@
    (LineCaret \o LinePanic \o LineOOM \o LineCaret
        :> <<"6","2","a","e","c","f","5","c","b","9","e","d","8","4","b","1">>) @@
    (LineCaret \o LinePanic \o LineCaret \o LineOOM
        :> <<"2","7","2","a","c","f","e","8","9","5","0","7","2","1","b","e">>) @@
    (LineOk \o LineOOM \o LineOOM \o LineOOM
        :> <<"c","8","f","b","b","8","f","a","6","6","8","e","6","2","2","6">>) @@
    (LinePanic \o LineOOM \o LineCaret \o LineCaret
        :> <<"0","b","c","b","8","c","b","f","0","b","b","0","8","9","f","d">>) @@
    (LinePanic \o LineCaret \o LineOOM \o LineCaret
        :> <<"2","d","a","9","a","2","f","8","6","2","0","d","e","2","f","b">>) @@
    (LinePanic \o LineCaret \o LineCaret \o LineOOM
        :> <<"a","2","9","1","8","b","a","4","2","f","6","f","9","0","d","0">>) @@
    (LineOOM \o LineOOM \o LineOOM \o LineOOM
        :> <<"2","e","a","f","5","7","e","1","c","a","0","c","3","2","a","9">>) @@
    (LineOOM \o LineThread \o LineCaret \o LineOk
        :> <<"5","b","e","c","d","b","a","7","b","e","5","f","e","9","4","c">>) @@
    (LineOOM \o LineThread \o LineOk \o LineCaret
        :> <<"d","6","5","4","a","1","6","8","7","c","a","6","0","6","a","c">>) @@
    (LineOOM \o LinePanic \o LineCaret \o LineOk
        :> <<"b","8","6","4","d","6","6","1","8","e","8","0","4","d","1","8">>) @@
    (LineOOM \o LinePanic \o LineOk \o LineCaret
        :> <<"b","6","3","c","6","e","9","b","f","4","1","c","d","5","1","c">>) @@
    (LineThread \o LineCaret \o LineOk \o LineOOM
        :> <<"d","5","3","5","0","b","2","9","a","b","0","0","e","6","7","8">>) @@
    (LineThread \o LineOk \o LineOOM \o LineCaret
        :> <<"6","e","9","7","6","6","a","3","3","b","c","c","6","5","e","4">>) @@
    (LineThread \o LineOk \o LineCaret \o LineOOM
        :> <<"5","c","e","8","8","2","4","3","8","a","f","7","8","b","e","2">>) @@
    (LineCaret \o LineThread \o LineOk \o LineOOM
        :> <<"3","e","6","c","1","f","6","b","0","f","e","0","0","0","1","2">>) @@
    (LineCaret \o LineOk \o LineOOM \o LinePanic
        :> <<"f","0","9","c","a","0","3","e","1","f","a","3","c","6","0","6">>) @@
    (LineCaret \o LinePanic \o LineOk \o LineOOM
        :> <<"2","d","5","0","3","5","7","f","f","d","5","1","2","b","f","0">>) @@
    (LineOk \o LineOOM \o LineCaret \o LinePanic
        :> <<"6","c","2","6","1","1","e","8","7","1","1","c","4","5","0","a">>) @@
    (LineOk \o LineOOM \o LinePanic \o LineCaret
        :> <<"f","6","6","5","9","9","e","2","e","8","e","7","e","f","3","d">>) @@
    (LineOk \o LineThread \o LineOOM \o LineCaret
        :> <<"6","9","a","2","6","c","0","5","1","c","8","4","a","2","e","1">>) @@
    (LineOk \o LineThread \o LineCaret \o LineOOM
        :> <<"c","b","6","7","6","a","7","a","8","c","3","3","a","4","3","0">>) @@
    (LineOk \o LineCaret \o LineOOM \o LinePanic
        :> <<"8","2","f","9","6","6","0","3","f","a","0","4","0","b","3","1">>) @@
    (LineOk \o LinePanic \o LineOOM \o LineCaret
        :> <<"6","9","f","f","1","2","f","e","b","c","4","7","7","7","d","9">>) @@
    (LineOk \o LinePanic \o LineCaret \o LineOOM
        :> <<"0","6","a","6","c","4","a","a","9","b","0","0","1","6","e","5">>) @@
    (LinePanic \o LineCaret \o LineOk \o LineOOM
        :> <<"2","3","3","4","d","4","d","5","9","7","e","c","0","1","e","0">>) @@
    (LinePanic \o LineOk \o LineOOM \o LineCaret
        :> <<"a","c","d","4","5","e","4","5","6","f","a","c","3","0","e","c">>) @@
    (LinePanic \o LineOk \o LineCaret \o LineOOM
        :> <<"7","8","7","6","9","a","1","d","6","b","2","8","0","f","7","b">>) @@
    (LineOOM \o LineOOM \o LineCaret \o LinePanic
        :> <<"b","2","5","4","1","7","f","6","5","5","5","c","7","a","c","7">>) @@
    (LineOOM \o LineOOM \o LinePanic \o LineCaret
        :> <<"5","5","1","0","6","4","0","4","6","c","1","1","c","5","6","7">>) @@
    (LineOOM \o LineThread \o LineOOM \o LineCaret
        :> <<"9","1","2","e","d","9","f","6","2","1","7","1","0","c","1","e">>) @@
    (LineOOM \o LineThread \o LineCaret \o LineOOM
        :> <<"b","9","7","7","4","f","2","b","7","7","3","4","2","1","0","6">>) @@
    (LineOOM \o LineThread \o LineOk \o LineOk
        :> <<"4","5","b","7","f","b","5","c","4","3","c","a","0","a","b","e">>) @@
    (LineOOM \o LineCaret \o LineOOM \o LinePanic
        :> <<"b","8","1","0","5","b","8","b","0","a","e","4","8","c","b","a">>) @@
    (LineOOM \o LinePanic \o LineOOM \o LineCaret
        :> <<"f","a","1","1","9","d","7","7","1","a","2","2","6","2","0","2">>) @@
    (LineOOM \o LinePanic \o LineCaret \o LineOOM
        :> <<"3","d","f","2","6","e","4","c","3","a","c","4","6","9","f","7">>) @@
    (LineOOM \o LinePanic \o LineOk \o LineOk
        :> <<"b","c","7","9","a","f","c","7","9","0","2","0","d","f","1","6">>) @@
    (LineThread \o LineOOM \o LineOOM \o LineCaret
        :> <<"a","9","1","f","2","4","d","6","e","e","a","0","6","6","8","8">>) @@
    (LineThread \o LineOOM \o LineCaret \o LineOOM
        :> <<"e","d","4","8","e","a","5","4","2","c","5","c","0","7","7","6">>) @@
    (LineThread \o LineCaret \o LineOOM \o LineOOM
        :> <<"4","0","8","0","1","c","4","c","c","d","b","5","d","2","0","1">>) @@
    (LineThread \o LineOk \o LineOk \o LineOOM
        :> <<"8","4","5","4","b","f","b","8","2","8","1","6","4","7","c","0">>) @@
    (LineCaret \o LineOOM \o LineOOM \o LinePanic
        :> <<"2","d","c","2","5","c","f","a","6","1","6","0","e","4","e","0">>) @@
    (LineCaret \o LineOOM \o LinePanic \o LineOOM
        :> <<"f","2","2","4","1","c","8","e","1","f","1","d","2","9","4","5">>) @@
    (LineCaret \o LineThread \o LineOOM \o LineOOM
        :> <<"f","2","b","3","8","b","b","3","4","f","a","8","7","6","a","7">>) @@
    (LineCaret \o LinePanic \o LineOOM \o LineOOM
        :> <<"7","0","2","0","a","8","3","f","b","6","4","a","1","9","e","b">>) @@
    (LineOk \o LineThread \o LineOk \o LineOOM
        :> <<"a","a","3","2","4","3","9","4","8","a","f","f","9","f","a","0">>) @@
    (LineOk \o LineOk \o LineOOM \o LinePanic
        :> <<"2","1","1","3","e","e","1","f","e","3","9","8","8","c","8","d">>) @@
    (LineOk \o LinePanic \o LineOk \o LineOOM
        :> <<"b","3","a","e","3","7","1","6","5","d","8","a","c","7","1","e">>) @@
    (LinePanic \o LineOOM \o LineOOM \o LineCaret
        :> <<"c","d","f","a","5","b","c","2","5","0","c","c","0","e","f","4">>) @@
    (LinePanic \o LineOOM \o LineCaret \o LineOOM
        :> <<"2","f","8","3","5","c","2","e","9","6","4","1","8","6","f","d">>) @@
    (LinePanic \o LineCaret \o LineOOM \o LineOOM
        :> <<"1","c","3","7","4","7","d","7","a","9","f","1","b","a","c","e">>) @@
    (LinePanic \o LineOk \o LineOk \o LineOOM
        :> <<"2","2","3","a","9","9","2","0","e","a","0","6","a","1","5","1">>) @@
    (LineOOM \o LineThread \o LineOOM \o LineOk
        :> <<"d","4","a","9","8","6","a","8","0","b","a","d","3","e","0","d">>) @@
    (LineOOM \o LineThread \o LineOk \o LineOOM
        :> <<"3","2","7","b","0","2","3","9","f","f","c","e","a","7","a","0">>) @@
    (LineOOM \o LineOk \o LineOOM \o LinePanic
        :> <<"a","e","4","7","5","c","7","3","6","9","9","f","3","c","9","0">>) @@
    (LineOOM \o LinePanic \o LineOOM \o LineOk
        :> <<"2","0","2","9","c","c","8","5","9","7","1","3","6","a","6","7">>) @@
    (LineOOM \o LinePanic \o LineOk \o LineOOM
        :> <<"5","4","4","9","9","d","8","a","9","4","7","2","b","d","c","4">>) @@
    (LineThread \o LineOOM \o LineOk \o LineOOM
        :> <<"2","3","1","a","4","1","e","a","0","1","0","9","9","5","b","a">>) @@
    (LineThread \o LineOk \o LineOOM \o LineOOM
        :> <<"e","8","1","a","e","f","8","1","5","e","2","b","f","5","c","5">>) @@
    (LineThread \o LinePanic \o LineCaret \o LineCaret
        :> <<"5","7","c","7","2","2","9","1","9","3","5","a","d","2","0","1">>) @@
    (LineCaret \o LinePanic \o LineCaret \o LinePanic
        :> <<"4","4","c","3","e","6","c","9","8","c","f","0","3","8","c","2">>) @@
    (LineCaret \o LinePanic \o LinePanic \o LineCaret
        :> <<"4","6","a","5","e","0","2","2","d","6","9","e","0","1","e","3">>) @@
    (LineOk \o LineOOM \o LineOOM \o LinePanic
        :> <<"9","0","5","5","d","c","a","4","f","6","1","a","9","f","d","9">>) @@
    (LineOk \o LineOOM \o LinePanic \o LineOOM
        :> <<"a","d","0","d","8","a","2","d","1","f","0","4","0","e","b","9">>) @@
    (LineOk \o LineThread \o LineOOM \o LineOOM
        :> <<"1","0","8","2","8","b","7","4","f","a","5","8","5","0","8","2">>) @@
    (LineOk \o LinePanic \o LineOOM \o LineOOM
        :> <<"7","1","2","3","4","a","4","8","3","9","f","0","5","2","7","d">>) @@
    (LinePanic \o LineOOM \o LineOk \o LineOOM
        :> <<"1","5","0","0","6","2","9","7","1","a","4","4","2","8","7","4">>) @@
    (LinePanic \o LineOk \o LineOOM \o LineOOM
        :> <<"d","a","8","9","5","4","e","a","7","8","a","a","9","c","7","5">>) @@
    (LinePanic \o LinePanic \o LineCaret \o LineCaret
        :> <<"d","7","9","a","8","5","3","1","7","f","6","6","6","e","1","4">>) @@
    (LineOOM \o LineOOM \o LineOOM \o LinePanic
        :> <<"6","2","2","6","7","3","b","1","8","8","1","3","7","7","4","3">>) @@
    (LineOOM \o LineOOM \o LinePanic \o LineOOM
        :> <<"2","e","b","2","c","d","b","7","4","3","0","a","2","2","d","6">>) @@
    (LineOOM \o LineThread \o LineOOM \o LineOOM
        :> <<"0","a","9","a","f","a","0","5","d","5","4","8","3","e","d","5">>) @@
    (LineOOM \o LinePanic \o LineOOM \o LineOOM
        :> <<"c","a","e","c","b","d","f","a","3","2","2","3","5","5","5","9">>) @@
    (LineThread \o LineOOM \o LineOOM \o LineOOM
        :> <<"f","3","2","3","f","3","3","6","6","d","a","4","1","b","5","4">>) @@
    (LineOk \o LinePanic \o LineCaret \o LinePanic
        :> <<"e","d","5","5","8","f","c","0","c","8","6","c","b","d","c","4">>) @@
    (LineOk \o LinePanic \o LinePanic \o LineCaret
        :> <<"f","7","5","c","5","e","1","9","8","1","f","c","f","d","a","2">>) @@
    (LinePanic \o LineOOM \o LineOOM \o LineOOM
        :> <<"f","d","2","e","b","5","f","c","3","4","3","5","0","6","b","7">>) @@
    (LineOOM \o LinePanic \o LineCaret \o LinePanic
        :> <<"b","8","8","0","9","8","6","5","1","4","e","e","1","3","5","0">>) @@
    (LineOOM \o LinePanic \o LinePanic \o LineCaret
        :> <<"1","b","6","4","c","0","e","2","8","7","1","4","7","0","9","9">>) @@
    (LineThread \o LineOOM \o LineCaret \o LinePanic
        :> <<"2","4","3","b","5","a","f","5","d","7","a","4","d","6","d","e">>) @@
    (LineThread \o LineOOM \o LinePanic \o LineCaret
        :> <<"1","3","b","8","9","6","c","c","1","2","4","3","a","0","6","0">>) @@
    (LineThread \o LineThread \o LineOOM \o LineCaret
        :> <<"3","3","4","8","8","5","7","9","9","5","c","a","3","9","7","9">>) @@
    (LineThread \o LineThread \o LineCaret \o LineOOM
        :> <<"6","7","e","6","7","4","7","0","1","a","1","e","7","d","f","c">>) @@
    (LineThread \o LineCaret \o LineOOM \o LinePanic
        :> <<"d","e","8","9","d","1","2","6","1","f","6","2","9","4","4","d">>) @@
    (LineThread \o LinePanic \o LineOOM \o LineCaret
        :> <<"f","6","8","d","b","b","7","a","e","5","b","1","a","9","b","a">>) @@
    (LineThread \o LinePanic \o LineCaret \o LineOOM
        :> <<"c","f","5","a","7","7","7","e","a","f","8","d","2","0","6","6">>) @@
    (LineCaret \o LineOOM \o LinePanic \o LinePanic
        :> <<"b","6","4","f","b","5","f","0","7","8","7","0","2","e","d","d">>) @@
    (LineCaret \o LineThread \o LineOOM \o LinePanic
        :> <<"4","f","d","f","1","5","3","9","e","1","b","a","5","a","5","d">>) @@
    (LineCaret \o LinePanic \o LineOOM \o LinePanic
        :> <<"3","9","c","a","4","7","8","5","6","5","2","3","5","a","c","2">>) @@
    (LineCaret \o LinePanic \o LinePanic \o LineOOM
        :> <<"4","1","1","b","9","b","2","a","a","5","0","d","7","a","1","1">>) @@
    (LinePanic \o LineOOM \o LineCaret \o LinePanic
        :> <<"8","2","5","a","5","b","d","9","a","d","f","1","b","8","a","8">>) @@
    (LinePanic \o LineOOM \o LinePanic \o LineCaret
        :> <<"b","a","a","4","5","6","5","1","5","a","d","5","6","6","f","0">>) @@
    (LinePanic \o LineThread \o LineOOM \o LineCaret
        :> <<"5","4","3","c","1","c","8","0","5","f","5","8","e","5","e","c">>) @@
    (LinePanic \o LineThread \o LineCaret \o LineOOM
        :> <<"5","1","b","d","e","c","1","b","7","a","0","7","b","a","0","c">>) @@
    (LinePanic \o LineCaret \o LineOOM \o LinePanic
        :> <<"a","9","6","0","7","e","e","b","5","a","9","3","6","0","3","c">>) @@
    (LinePanic \o LinePanic \o LineOOM \o LineCaret
        :> <<"1","0","1","0","a","3","1","8","1","2","b","8","a","c","a","a">>) @@
    (LinePanic \o LinePanic \o LineCaret \o LineOOM
        :> <<"a","7","e","f","4","5","5","6","1","1","e","f","d","a","b","6">>) @@
    (LineThread \o LineThread \o LineOk \o LineOOM
        :> <<"c","7","8","e","f","d","6","7","2","3","2","9","7","a","4","9">>) @@
    (LineThread \o LineOk \o LineOOM \o LinePanic
        :> <<"6","3","d","1","f","8","d","6","8","5","6","6","f","1","4","f">>) @@
    (LineThread \o LinePanic \o LineOk \o LineOOM
        :> <<"c","c","1","d","d","c","f","c","8","9","3","0","5","5","8","f">>) @@
    (LineOk \o LineOOM \o LinePanic \o LinePanic
        :> <<"8","e","d","1","f","0","e","0","b","e","1","b","3","7","4","1">>) @@
    (LineOk \o LineThread \o LineOOM \o LinePanic
        :> <<"5","5","4","4","8","e","3","1","4","2","0","f","d","c","7","2">>) @@
    (LineOk \o LinePanic \o LineOOM \o LinePanic
        :> <<"b","f","a","3","b","3","c","f","c","3","f","2","a","9","5","9">>) @@
    (LineOk \o LinePanic \o LinePanic \o LineOOM
        :> <<"b","f","e","e","e","e","1","b","e","0","2","f","3","2","f","6">>) @@
    (LinePanic \o LineThread \o LineOk \o LineOOM
        :> <<"f","0","7","a","9","6","5","1","3","7","a","5","8","d","0","6">>) @@
    (LinePanic \o LineOk \o LineOOM \o LinePanic
        :> <<"6","5","4","2","4","5","7","9","6","5","a","e","b","5","1","1">>) @@
    (LinePanic \o LinePanic \o LineOk \o LineOOM
        :> <<"c","9","4","1","8","2","1","a","f","0","7","4","f","0","6","f">>) @@
    (LineOOM \o LineOOM \o LinePanic \o LinePanic
        :> <<"5","3","9","9","0","9","8","5","4","5","8","d","2","f","9","3">>) @@
    (LineOOM \o LineThread \o LineOOM \o LinePanic
        :> <<"b","7","9","6","e","c","9","f","1","f","5","d","2","1","0","4">>) @@
    (LineOOM \o LinePanic \o LineOOM \o LinePanic
        :> <<"f","7","e","b","6","4","0","2","d","d","f","f","4","f","1","b">>) @@
    (LineOOM \o LinePanic \o LinePanic \o LineOOM
        :> <<"b","d","7","9","7","e","f","2","d","6","b","1","4","e","8","a">>) @@
    (LineThread \o LineOOM \o LineOOM \o LinePanic
        :> <<"0","8","3","c","d","6","f","e","5","b","a","7","9","a","9","9">>) @@
    (LineThread \o LineOOM \o LinePanic \o LineOOM
        :> <<"3","8","a","1","e","b","4","f","4","2","b","e","4","e","2","4">>) @@
    (LineThread \o LineThread \o LineOOM \o LineOOM
        :> <<"3","e","c","2","0","7","c","e","8","9","3","5","1","6","b","4">>) @@
    (LineThread \o LinePanic \o LineOOM \o LineOOM
        :> <<"a","2","9","7","e","8","8","d","5","b","b","e","6","b","8","0">>) @@
    (LinePanic \o LineOOM \o LineOOM \o LinePanic
        :> <<"9","7","3","2","6","5","2","4","7","b","c","5","2","e","6","0">>) @@
    (LinePanic \o LineOOM \o LinePanic \o LineOOM
        :> <<"e","4","2","7","b","3","f","1","d","f","4","8","9","1","d","8">>) @@
    (LinePanic \o LineThread \o LineOOM \o LineOOM
        :> <<"e","b","5","8","6","f","9","9","c","a","3","4","e","0","d","e">>) @@
    (LinePanic \o LinePanic \o LineOOM \o LineOOM
        :> <<"7","6","8","7","e","c","1","7","e","6","7","c","0","2","2","b">>) @@
    (LineThread \o LinePanic \o LineCaret \o LinePanic
        :> <<"b","a","f","8","c","2","8","3","3","b","c","b","e","9","f","6">>) @@
    (LineThread \o LinePanic \o LinePanic \o LineCaret
        :> <<"d","3","c","9","2","2","6","e","9","e","e","3","2","7","1","b">>) @@
    (LineCaret \o LinePanic \o LinePanic \o LinePanic
        :> <<"f","7","b","0","0","9","a","8","a","b","7","5","5","4","c","8">>) @@
    (LinePanic \o LinePanic \o LineCaret \o LinePanic
        :> <<"e","0","0","9","b","d","b","a","6","7","d","a","3","9","d","9">>) @@
    (LinePanic \o LinePanic \o LinePanic \o LineCaret
        :> <<"f","3","2","e","2","c","9","a","2","6","9","5","e","7","e","4">>) @@
    (LineCollideB
        :> <<"3","8","9","d","5","c","5","4","7","b","3","4","3","4","2","b">>) @@
    (LineCollideA
        :> <<"3","8","9","d","5","c","5","4","7","b","3","4","3","4","2","b">>) @@
    (LineOk \o LinePanic \o LinePanic \o LinePanic
        :> <<"6","b","a","a","0","e","e","1","7","2","d","6","f","a","7","5">>) @@
    (LineOOM \o LinePanic \o LinePanic \o LinePanic
        :> <<"6","7","3","e","d","c","5","9","a","7","3","6","f","5","0","3">>) @@
    (LineThread \o LineOOM \o LinePanic \o LinePanic
        :> <<"d","7","7","3","2","4","3","3","e","5","9","f","b","d","6","c">>) @@
    (LineThread \o LineThread \o LineOOM \o LinePanic
        :> <<"e","6","6","9","b","d","e","d","5","b","e","8","5","2","3","9">>) @@
    (LineThread \o LinePanic \o LineOOM \o LinePanic
        :> <<"9","b","7","1","3","b","7","2","0","7","8","b","f","7","d","8">>) @@
    (LineThread \o LinePanic \o LinePanic \o LineOOM
        :> <<"4","b","2","1","1","9","8","0","6","0","6","9","4","1","a","8">>) @@
    (LinePanic \o LineOOM \o LinePanic \o LinePanic
        :> <<"3","9","7","6","8","f","f","8","7","7","c","a","2","f","e","3">>) @@
    (LinePanic \o LineThread \o LineOOM \o LinePanic
        :> <<"5","d","7","f","3","3","9","4","8","a","9","9","7","9","a","d">>) @@
    (LinePanic \o LinePanic \o LineOOM \o LinePanic
        :> <<"4","d","0","5","e","b","0","c","d","6","7","8","c","1","9","4">>) @@
    (LinePanic \o LinePanic \o LinePanic \o LineOOM
        :> <<"7","f","3","e","1","e","a","9","8","6","b","2","b","8","9","e">>) @@
    (LineThread \o LinePanic \o LinePanic \o LinePanic
        :> <<"8","a","1","e","8","7","f","1","f","f","d","d","4","2","3","4">>) @@
    (LinePanic \o LinePanic \o LinePanic \o LinePanic
        :> <<"9","f","c","6","9","8","6","5","f","1","3","f","9","7","5","c">>) @@
    (<<"T","r","a","c","e","b","a","c","k"," ","(","m","o","s","t"," ","r",
        "e","c","e","n","t"," ","c","a","l","l"," ","l","a","s","t",")",":">>
        :> <<"5","d","d","9","4","c","e","d","5","a","2","a","f","b","4","a">>) @@
    (<<"Z","e","r","o","D","i","v","i","s","i","o","n","E","r","r","o","r",
        ":"," ","d","i","v","i","s","i","o","n"," ","b","y"," ","z","e","r",
        "o">>
        :> <<"b","5","1","3","7","3","d","2","2","f","5","1","3","0","e","4">>) @@
    (<<"r","e","s","u","l","t"," ","="," ","d","i","v","i","d","e","(","n",
        "u","m","e","r","a","t","o","r",","," ","d","e","n","o","m","i","n",
        "a","t","o","r",")">>
        :> <<"e","f","f","8","4","e","5","a","8","e","6","a","a","f","1","b">>) @@
    (<<"E","R","R","O","R"," ","i","n"," ","a","p","p",":"," ","E","x","c",
        "e","p","t","i","o","n"," ","o","n"," ","/","a","p","i","/","c","a",
        "l","c","u","l","a","t","e"," ","[","G","E","T","]">>
        :> <<"f","e","e","b","b","f","9","c","3","d","0","1","1","8","9","c">>) @@
    (<<"r","e","s","u","l","t"," ","="," ","d","i","v","i","d","e","(","n",
        "u","m","e","r","a","t","o","r",","," ","d","e","n","o","m","i","n",
        "a","t","o","r",")","[","D","E","B","U","G","]"," ","P","r","o","c",
        "e","s","s","i","n","g"," ","c","a","l","c","u","l","a","t","i","o",
        "n"," ","r","e","q","u","e","s","t",".",".",".","E","R","R","O","R",
        " ","i","n"," ","a","p","p",":"," ","E","x","c","e","p","t","i","o",
        "n"," ","o","n"," ","/","a","p","i","/","c","a","l","c","u","l","a",
        "t","e"," ","[","G","E","T","]","T","r","a","c","e","b","a","c","k",
        " ","(","m","o","s","t"," ","r","e","c","e","n","t"," ","c","a","l",
        "l"," ","l","a","s","t",")",":">>
        :> <<"d","d","6","a","c","c","f","2","9","d","9","8","7","c","6","8">>) @@
    (<<"F","i","l","e"," ","\"","p","y","t","h","o","n","/","a","p","p",
        ".","p","y","\"",","," ","l","i","n","e"," ","4","5",","," ","i",
        "n"," ","c","a","l","c","u","l","a","t","e","[","D","E","B","U","G",
        "]"," ","P","r","o","c","e","s","s","i","n","g"," ","c","a","l","c",
        "u","l","a","t","i","o","n"," ","r","e","q","u","e","s","t",".",".",
        ".","E","R","R","O","R"," ","i","n"," ","a","p","p",":"," ","E","x",
        "c","e","p","t","i","o","n"," ","o","n"," ","/","a","p","i","/","c",
        "a","l","c","u","l","a","t","e"," ","[","G","E","T","]","T","r","a",
        "c","e","b","a","c","k"," ","(","m","o","s","t"," ","r","e","c","e",
        "n","t"," ","c","a","l","l"," ","l","a","s","t",")",":">>
        :> <<"9","5","0","6","a","f","1","1","c","b","b","9","2","6","2","6">>)

\* hex.EncodeToString(hash[:8]) for hash := sha256.Sum256([]byte(data)): the
\* first 8 of the 32 bytes of the digest, in 16 hexadecimal digits.
Sha256Hex8(data) ==
    IF data \in DOMAIN DigestMemo
    THEN DigestMemo[data]
    ELSE HexOfFirst8(Sum256(Bytes(data)))

\* The entry of DigestMemo for data is the digest as it is computed.
DigestMemoAgrees(data) == DigestMemo[data] = HexOfFirst8(Sum256(Bytes(data)))

\* The bytes hashError hashes.
hashData(event) ==
    IF Len(event.Context) > 3
    THEN event.Line \o event.Context[1] \o event.Context[2] \o event.Context[3]
    ELSE event.Line

hashError(event) == Sha256Hex8(hashData(event))

\* isDuplicate with a slip: the cooldown compared with <=.
isDuplicateInclusive(event, lastHash, lastTime, t) ==
    LET hash == hashError(event)
    IN  IF hash = lastHash /\ t - lastTime <= cooldownDuration
        THEN [dup |-> TRUE,  lastErrorHash |-> lastHash, lastErrorTime |-> lastTime]
        ELSE [dup |-> FALSE, lastErrorHash |-> hash,     lastErrorTime |-> t]

\* isDuplicate with a slip: a duplicate restarts the cooldown.
isDuplicateExtendsCooldown(event, lastHash, lastTime, t) ==
    LET hash == hashError(event)
    IN  IF hash = lastHash /\ t - lastTime < cooldownDuration
        THEN [dup |-> TRUE,  lastErrorHash |-> lastHash, lastErrorTime |-> t]
        ELSE [dup |-> FALSE, lastErrorHash |-> hash,     lastErrorTime |-> t]

\* isDuplicate at time t: its result and the suppressor state it leaves.
isDuplicate(event, lastHash, lastTime, t) ==
    LET hash == hashError(event)
    IN  IF hash = lastHash /\ t - lastTime < cooldownDuration
        THEN [dup |-> TRUE,  lastErrorHash |-> lastHash, lastErrorTime |-> lastTime]
        ELSE [dup |-> FALSE, lastErrorHash |-> hash,     lastErrorTime |-> t]

(***************************************************************************)
(* Inputs                                                                  *)
(***************************************************************************)

\* Chunks the external writer appends in SpecTail.
TailChunks == {<<"a">>, <<" ">>, <<"\n">>}

\* Lines in the Buffer at the start of SpecStart, and the lines then written.
PrefillLines == {LineThread, LineOk}
StartLines   == {LineOOM, LinePanic}

\* Lines the external writer appends in SpecDelivery.
DeliveryLines == {LinePanic, LineOOM}

\* Lines the external writer appends in SpecCollision: an error line, and
\* two further error lines that differ from it and from each other and
\* have one hash.
CollisionLines == {LinePanic, LineCollideA, LineCollideB}

\* Scenario S1, the Python ZeroDivisionError of the log injector: the lines
\* that lead up to the error and the lines of the traceback.
S1NormalLogs ==
    <<
       <<"[","I","N","F","O","]"," ","F","l","a","s","k"," ","a","p","p",
         " ","s","t","a","r","t","i","n","g"," ","o","n"," ","p","o","r",
         "t"," ","5","0","0","0",".",".",".">>,
       <<"[","I","N","F","O","]"," ","L","o","a","d","i","n","g"," ","c",
         "o","n","f","i","g","u","r","a","t","i","o","n"," ","f","r","o",
         "m"," ","c","o","n","f","i","g",".","y","a","m","l">>,
       <<"[","I","N","F","O","]"," ","D","a","t","a","b","a","s","e"," ",
         "c","o","n","n","e","c","t","i","o","n"," ","e","s","t","a","b",
         "l","i","s","h","e","d">>,
       <<"[","I","N","F","O","]"," ","R","e","g","i","s","t","e","r","i",
         "n","g"," ","r","o","u","t","e","s",".",".",".">>,
       <<"[","I","N","F","O","]"," ","R","o","u","t","e"," ","/","a","p",
         "i","/","c","a","l","c","u","l","a","t","e"," ","r","e","g","i",
         "s","t","e","r","e","d">>,
       <<"[","D","E","B","U","G","]"," ","R","e","q","u","e","s","t"," ",
         "r","e","c","e","i","v","e","d",":"," ","G","E","T"," ","/","a",
         "p","i","/","c","a","l","c","u","l","a","t","e">>,
       <<"[","D","E","B","U","G","]"," ","P","r","o","c","e","s","s","i",
         "n","g"," ","c","a","l","c","u","l","a","t","i","o","n"," ","r",
         "e","q","u","e","s","t",".",".",".">>
    >>

S1Traceback ==
    <<
       <<"E","R","R","O","R"," ","i","n"," ","a","p","p",":"," ","E","x",
         "c","e","p","t","i","o","n"," ","o","n"," ","/","a","p","i","/",
         "c","a","l","c","u","l","a","t","e"," ","[","G","E","T","]">>,
       <<"T","r","a","c","e","b","a","c","k"," ","(","m","o","s","t"," ",
         "r","e","c","e","n","t"," ","c","a","l","l"," ","l","a","s","t",
         ")",":">>,
       <<" "," ","F","i","l","e"," ","\"","p","y","t","h","o","n","/","a",
         "p","p",".","p","y","\"",","," ","l","i","n","e"," ","4","5",",",
         " ","i","n"," ","c","a","l","c","u","l","a","t","e">>,
       <<" "," "," "," ","r","e","s","u","l","t"," ","="," ","d","i","v",
         "i","d","e","(","n","u","m","e","r","a","t","o","r",","," ","d",
         "e","n","o","m","i","n","a","t","o","r",")">>,
       <<" "," ","F","i","l","e"," ","\"","p","y","t","h","o","n","/","a",
         "p","p",".","p","y","\"",","," ","l","i","n","e"," ","1","2",",",
         " ","i","n"," ","d","i","v","i","d","e">>,
       <<" "," "," "," ","r","e","t","u","r","n"," ","a"," ","/"," ","b">>,
       <<"Z","e","r","o","D","i","v","i","s","i","o","n","E","r","r","o",
         "r",":"," ","d","i","v","i","s","i","o","n"," ","b","y"," ","z",
         "e","r","o">>
    >>

S1Lines == S1NormalLogs \o S1Traceback

\* Clock advances: half the trace timeout and half the cooldown.
TickSteps == {traceDuration \div 2, cooldownDuration \div 2}

\* In SpecDelivery: past the trace timeout, and half the cooldown.
TickStepsD == {2 * traceDuration, cooldownDuration \div 2}

\* Clock steps in SpecCollision: past the trace timeout, and the cooldown.
TickStepsK == {2 * traceDuration, cooldownDuration}

\* In SpecCooldown: past the trace timeout, a POST that lasts 4 s, and the
\* rest of a pause of 31 s.
TickStepsC == {2 * traceDuration, 4000, cooldownDuration - 3000}

LineDots == <<".",".",".">>
LineAt   == <<"a","t"," ","f">>

\* Lines the external writer appends in SpecRun after an error line, over
\* and over: each begins with a continuation marker.
RunLines == <<LineCaret, LineDots, LineAt>>

\* Values of a field of the config file in SpecConfig: left out or empty,
\* one blank, a value.
ConfigStrings == {<<>>, <<" ">>, <<"a">>}

Configs == [LogPath : ConfigStrings, ServerURL : ConfigStrings, RepoURL : ConfigStrings]

\* The config file in SpecConfig: none, one that cannot be read, one that
\* is no JSON, and one of each Config.
ConfigFiles ==
    {[State |-> st, Fields |-> ZeroConfig] : st \in {"absent", "unreadable", "invalid"}}
    \cup {[State |-> "ok", Fields |-> c] : c \in Configs}

\* What is typed on stdin during RunSetup in SpecConfig, line by line: the
\* three answers, the server URL with and without the webhook path and
\* with a trailing slash, after an empty line or directly.
SetupURLs == {<<"h">>, <<"h","/">>, <<"h">> \o WebhookPath}

SetupInputs ==
    {<<<<"a">>, u, <<" ","r"," ">>>> : u \in SetupURLs}
    \cup {<<<<>>, <<"a">>, <<" ">>, u, <<"r">>>> : u \in SetupURLs}

\* The errors os.Open and file.Seek return in SpecConfig.
OpenErrs == {"nil", "open failed"}
SeekErrs == {"nil", "seek failed"}

\* The error SaveConfig returns in SpecConfig.
SaveErrs == {"nil", "write failed"}

NewLine == <<"\n">>

\* Whole lines in data.
PendingLines(data) == Cardinality({i \in 1..Len(data) : data[i] = "\n"})

\* The newline-terminated lines of data, each without its newline.
RECURSIVE SplitLines(_)
SplitLines(data) ==
    IF \A i \in 1..Len(data) : data[i] # "\n" THEN <<>>
    ELSE LET k == CHOOSE i \in 1..Len(data) :
                     data[i] = "\n" /\ \A j \in 1..(i - 1) : data[j] # "\n"
         IN  <<SubSeq(data, 1, k - 1)>> \o SplitLines(SubSeq(data, k + 1, Len(data)))

\* The bytes of a file holding the lines, each ended by a newline.
RECURSIVE JoinLines(_)
JoinLines(lines) ==
    IF lines = <<>> THEN <<>>
    ELSE Head(lines) \o NewLine \o JoinLines(Tail(lines))

(***************************************************************************)
(* Initial states                                                          *)
(***************************************************************************)

\* After NewWatcher (the file is open and positioned at its end), with the
\* two goroutines started and main waiting for a signal.
Init ==
    /\ unread = <<>>
    /\ w = NewWatcher("nil", "nil").w
    /\ wpc = "running"
    /\ sending = <<>>
    /\ fileOpen = TRUE
    /\ configFile = [State |-> "ok", Fields |-> ValidConfig]
    /\ cfg = ValidConfig
    /\ startErr = "nil"
    /\ dpc = "ranging"
    /\ closed = FALSE
    /\ events = <<>>
    /\ done = FALSE
    /\ mainpc = "waiting"
    /\ inflight = <<>>
    /\ sendErr = "none"
    /\ lastErrorHash = <<>>
    /\ lastErrorTime = ZeroTime
    /\ now = 0
    /\ ticks = 0
    /\ written = <<>>
    /\ ingested = <<>>
    /\ traceFrom = 0
    /\ emitted = <<>>
    /\ dlog = <<>>

\* The Watcher after it has read up to MaxPrefill lines none of which is an
\* error line: it is Idle and the Buffer holds them.
InitStart ==
    /\ \E n \in 0..MaxPrefill :
         \E buf \in [1..n -> PrefillLines] :
            /\ w = [NewWatcher("nil", "nil").w EXCEPT !.lineBuffer = buf]
            /\ ingested = buf
            /\ written = JoinLines(buf)
    /\ unread = <<>>
    /\ wpc = "running"
    /\ sending = <<>>
    /\ fileOpen = TRUE
    /\ configFile = [State |-> "ok", Fields |-> ValidConfig]
    /\ cfg = ValidConfig
    /\ startErr = "nil"
    /\ dpc = "ranging"
    /\ closed = FALSE
    /\ events = <<>>
    /\ done = FALSE
    /\ mainpc = "waiting"
    /\ inflight = <<>>
    /\ sendErr = "none"
    /\ lastErrorHash = <<>>
    /\ lastErrorTime = ZeroTime
    /\ now = 0
    /\ ticks = 0
    /\ traceFrom = 0
    /\ emitted = <<>>
    /\ dlog = <<>>

\* main at its entry, for every config file of ConfigFiles: no goroutine
\* is started and the log file is not open.
InitConfig ==
    /\ configFile \in ConfigFiles
    /\ cfg = ZeroConfig
    /\ startErr = "none"
    /\ mainpc = "starting"
    /\ wpc = "notstarted"
    /\ sending = <<>>
    /\ dpc = "notstarted"
    /\ fileOpen = FALSE
    /\ closed = FALSE
    /\ unread = <<>>
    /\ w = NewWatcher("nil", "nil").w
    /\ events = <<>>
    /\ done = FALSE
    /\ inflight = <<>>
    /\ sendErr = "none"
    /\ lastErrorHash = <<>>
    /\ lastErrorTime = ZeroTime
    /\ now = 0
    /\ ticks = 0
    /\ written = <<>>
    /\ ingested = <<>>
    /\ traceFrom = 0
    /\ emitted = <<>>
    /\ dlog = <<>>

\* The Watcher, the channel and the histories p after Watch has further
\* read the lines OOM and ok at time 0 and nothing was received: the pair
\* is an Incident.
FedPair(p) ==
    LET a    == onLine(p.w, p.ch, LineOOM \o NewLine, 0)
        b    == onLine(a.w, a.ch, LineOk \o NewLine, 0)
        ing  == p.ingested \o <<LineOOM, LineOk>>
        from == Len(ing) - Len(a.w.traceLines)
    IN  [w         |-> b.w,
         ch        |-> b.ch,
         written   |-> p.written \o LineOOM \o NewLine \o LineOk \o NewLine,
         ingested  |-> ing,
         traceFrom |-> from,
         emitted   |-> Append(p.emitted, [ev   |-> Last(b.ch),
                                          from |-> from,
                                          to   |-> Len(ing)])]

\* FedPair applied until the channel holds n events.
RECURSIVE Fed(_, _)
Fed(p, n) == IF Len(p.ch) >= n THEN p ELSE Fed(FedPair(p), n)

\* The process when the Delivery goroutine has not yet received anything
\* and the channel lacks one event to be full.
InitFull ==
    /\ LET f == Fed([w |-> NewWatcher("nil", "nil").w, ch |-> <<>>, written |-> <<>>, ingested |-> <<>>,
                     traceFrom |-> 0, emitted |-> <<>>], ChanCap - 1)
       IN  /\ w = f.w
           /\ events = f.ch
           /\ ingested = f.ingested
           /\ traceFrom = f.traceFrom
           /\ emitted = f.emitted
           /\ written = f.written
    /\ unread = <<>>
    /\ wpc = "running"
    /\ sending = <<>>
    /\ fileOpen = TRUE
    /\ configFile = [State |-> "ok", Fields |-> ValidConfig]
    /\ cfg = ValidConfig
    /\ startErr = "nil"
    /\ dpc = "ranging"
    /\ closed = FALSE
    /\ done = FALSE
    /\ mainpc = "waiting"
    /\ inflight = <<>>
    /\ sendErr = "none"
    /\ lastErrorHash = <<>>
    /\ lastErrorTime = ZeroTime
    /\ now = 0
    /\ ticks = 0
    /\ dlog = <<>>

(***************************************************************************)
(* The external writer and the clock                                       *)
(***************************************************************************)

AppendBytes(bytes) ==
    /\ unread' = unread \o bytes
    /\ written' = written \o bytes
    /\ UNCHANGED <<configFile, cfg, startErr, dpc, closed, w, wpc, fileOpen, events, done, mainpc,
                   inflight, sendErr, lastErrorHash, lastErrorTime, now, ticks,
                   ingested, traceFrom, emitted, dlog, sending>>

\* A whole line, appended in one write, whatever the Tailer has read and
\* whether or not the process still runs.
WriteLine ==
    /\ PendingLines(written) < MaxWrites
    /\ \E l \in RawLines : AppendBytes(l \o NewLine)

\* A write of part of a line: the Tailer may read between two of them.
WriteChunk ==
    /\ Len(written) < MaxBytes
    /\ \E c \in TailChunks : AppendBytes(c)

\* The lines that follow the lines of InitStart: error lines, so that the
\* Watcher that reads the first of them starts a trace.
WriteLineS ==
    /\ Cardinality({i \in 1..Len(SplitLines(written)) :
                        SplitLines(written)[i] \in StartLines}) < MaxWritesS
    /\ \E l \in StartLines : AppendBytes(l \o NewLine)

WriteLineD ==
    /\ PendingLines(written) < MaxWritesD
    /\ \E l \in DeliveryLines : AppendBytes(l \o NewLine)

WriteLineK ==
    /\ PendingLines(written) < MaxWritesK
    /\ \E l \in CollisionLines : AppendBytes(l \o NewLine)

\* The lines that follow those of InitFull: further pairs OOM, ok.
WriteLineB ==
    /\ PendingLines(written) < 2 * (ChanCap - 1) + MaxWritesB
    /\ AppendBytes((IF PendingLines(written) % 2 = 0 THEN LineOOM ELSE LineOk) \o NewLine)

\* The lines of scenario S1, appended in order.
WriteLineS1 ==
    /\ PendingLines(written) < Len(S1Lines)
    /\ AppendBytes(S1Lines[PendingLines(written) + 1] \o NewLine)

\* An error line and then an unbroken run of continuation lines.
WriteLineR ==
    /\ PendingLines(written) < MaxRun
    /\ AppendBytes((IF written = <<>>
                    THEN LineOOM
                    ELSE RunLines[(PendingLines(written) % Len(RunLines)) + 1])
                   \o NewLine)

\* The time between two lines of the run written in SpecUnending: a third
\* of the trace timeout.
RunGap == traceDuration \div 3

\* An error line and then continuation lines, each written RunGap after
\* the line before it: the clock advances as the writer sleeps.
WriteLineU ==
    /\ PendingLines(written) < MaxWritesU
    /\ \E bytes \in {(IF written = <<>>
                       THEN LineOOM
                       ELSE RunLines[(PendingLines(written) % Len(RunLines)) + 1])
                      \o NewLine} :
          /\ unread' = unread \o bytes
          /\ written' = written \o bytes
    /\ now' = now + RunGap
    /\ UNCHANGED <<configFile, cfg, startErr, dpc, closed, w, wpc, fileOpen, events, done, mainpc,
                   inflight, sendErr, lastErrorHash, lastErrorTime, ticks,
                   ingested, traceFrom, emitted, dlog, sending>>

Advance(d) ==
    /\ now' = now + d
    /\ ticks' = ticks + 1
    /\ UNCHANGED <<configFile, cfg, startErr, dpc, closed, unread, w, wpc, fileOpen, events, done,
                   mainpc, inflight, sendErr, lastErrorHash, lastErrorTime, written,
                   ingested, traceFrom, emitted, dlog, sending>>

Tick ==
    /\ ticks < MaxTicks
    /\ \E d \in TickSteps : Advance(d)

TickD ==
    /\ ticks < MaxTicksD
    /\ \E d \in TickStepsD : Advance(d)

TickK ==
    /\ ticks < MaxTicksK
    /\ \E d \in TickStepsK : Advance(d)

\* The clock in SpecCooldown: it advances in every state, whether an
\* Incident waits in the channel, a POST is in flight or neither.
TickC ==
    /\ ticks < MaxTicksC
    /\ \E d \in TickStepsC : Advance(d)

\* The clock in SpecS1: a step past the trace timeout, at any time.
TickS1 ==
    /\ ticks < MaxTicks
    /\ \E d \in TickStepsD : Advance(d)

(***************************************************************************)
(* The Watch goroutine: one iteration of the loop of Watcher.Watch         *)
(***************************************************************************)

\* Watch with a slip: on done the trace being collected is emitted before
\* the return.
WatchFlushOnDone ==
    /\ wpc \in {"running", "sending"}
    /\ mainpc # "exited"
    /\ IF wpc = "sending"
       THEN /\ Len(events) < ChanCap
            /\ events' = Append(events, sending[1])
            /\ sending' = <<>>
            /\ w' = afterSend(w)
            /\ wpc' = "running"
            /\ emitted' = Append(emitted, [ev   |-> sending[1],
                                           from |-> traceFrom,
                                           to   |-> Len(ingested)])
            /\ UNCHANGED <<unread, ingested, traceFrom>>
       ELSE IF done
       THEN LET r == emitTrace(w, events, now)
            IN  /\ wpc' = IF r.sending # <<>> THEN "sending" ELSE "returned"
                /\ w' = r.w
                /\ events' = r.ch
                /\ sending' = r.sending
                /\ emitted' = IF Len(r.ch) > Len(events)
                              THEN Append(emitted, [ev   |-> Last(r.ch),
                                                    from |-> traceFrom,
                                                    to   |-> Len(ingested)])
                              ELSE emitted
                /\ UNCHANGED <<unread, ingested, traceFrom>>
       ELSE LET rd   == ReadString(unread)
                r    == IF rd.err = "EOF"
                        THEN onEOF(w, events, now)
                        ELSE onLine(w, events, rd.line, now)
                line == TrimSpace(rd.line)
                ing  == IF rd.err = "nil" /\ line # <<>>
                        THEN Append(ingested, line)
                        ELSE ingested
            IN  /\ unread' = rd.rest
                /\ w' = r.w
                /\ events' = r.ch
                /\ sending' = r.sending
                /\ ingested' = ing
                /\ traceFrom' = IF r.w.collectingTrace /\ ~w.collectingTrace
                                THEN Len(ing) - Len(r.w.traceLines) + 1
                                ELSE traceFrom
                /\ emitted' = IF Len(r.ch) > Len(events)
                              THEN Append(emitted, [ev   |-> Last(r.ch),
                                                    from |-> traceFrom,
                                                    to   |-> Len(ing)])
                              ELSE emitted
                /\ wpc' = IF r.sending # <<>> THEN "sending" ELSE wpc
    /\ UNCHANGED <<configFile, cfg, startErr, dpc, closed, fileOpen, done, mainpc, inflight,
                   sendErr, lastErrorHash, lastErrorTime, now, ticks, written, dlog>>

\* One iteration of the loop. select: done closed, return nil; otherwise
\* ReadString, and the line or the io.EOF is handled. The send of emitTrace
\* blocks while the channel is full: the iteration stops there, the line
\* read and the Watcher as they are before the send, and goes on from the
\* send when the channel has room, whether or not done is closed by then.
\* time.Sleep only delays the next iteration: the clock is advanced by Tick.
Watch ==
    /\ wpc \in {"running", "sending"}
    /\ mainpc # "exited"
    /\ IF wpc = "sending"
       THEN /\ Len(events) < ChanCap
            /\ events' = Append(events, sending[1])
            /\ sending' = <<>>
            /\ w' = afterSend(w)
            /\ wpc' = "running"
            /\ emitted' = Append(emitted, [ev   |-> sending[1],
                                           from |-> traceFrom,
                                           to   |-> Len(ingested)])
            /\ UNCHANGED <<unread, ingested, traceFrom>>
       ELSE IF done
       THEN /\ wpc' = "returned"
            /\ UNCHANGED <<unread, w, events, sending, ingested, traceFrom, emitted>>
       ELSE LET rd   == ReadString(unread)
                r    == IF rd.err = "EOF"
                        THEN onEOF(w, events, now)
                        ELSE onLine(w, events, rd.line, now)
                line == TrimSpace(rd.line)
                ing  == IF rd.err = "nil" /\ line # <<>>
                        THEN Append(ingested, line)
                        ELSE ingested
            IN  /\ unread' = rd.rest
                /\ w' = r.w
                /\ events' = r.ch
                /\ sending' = r.sending
                /\ ingested' = ing
                /\ traceFrom' = IF r.w.collectingTrace /\ ~w.collectingTrace
                                THEN Len(ing) - Len(r.w.traceLines) + 1
                                ELSE traceFrom
                /\ emitted' = IF Len(r.ch) > Len(events)
                              THEN Append(emitted, [ev   |-> Last(r.ch),
                                                    from |-> traceFrom,
                                                    to   |-> Len(ing)])
                              ELSE emitted
                /\ wpc' = IF r.sending # <<>> THEN "sending" ELSE wpc
    /\ UNCHANGED <<configFile, cfg, startErr, dpc, closed, fileOpen, done, mainpc, inflight,
                   sendErr, lastErrorHash, lastErrorTime, now, ticks, written, dlog>>

\* ReadString fails with an error other than io.EOF: Watch returns it.
WatchReadError ==
    /\ wpc = "running"
    /\ mainpc # "exited"
    /\ ~done
    /\ wpc' = "failed"
    /\ UNCHANGED <<configFile, cfg, startErr, dpc, closed, unread, w, fileOpen, events, done,
                   mainpc, inflight, sendErr, lastErrorHash, lastErrorTime, now, ticks,
                   written, ingested, traceFrom, emitted, dlog, sending>>

(***************************************************************************)
(* The Delivery goroutine                                                  *)
(***************************************************************************)

\* The receive with a slip: the newest event of the channel is taken.
DeliverNewestFirst ==
    /\ dpc = "ranging"
    /\ mainpc # "exited"
    /\ inflight = <<>>
    /\ events # <<>>
    /\ LET ev == Last(events)
           r  == isDuplicate(ev, lastErrorHash, lastErrorTime, now)
       IN  /\ events' = SubSeq(events, 1, Len(events) - 1)
           /\ lastErrorHash' = r.lastErrorHash
           /\ lastErrorTime' = r.lastErrorTime
           /\ inflight' = IF r.dup THEN <<>> ELSE <<ev>>
           /\ dlog' = Append(dlog, [ev     |-> ev,
                                    hash   |-> hashError(ev),
                                    at     |-> now,
                                    posted |-> ~r.dup])
    /\ sendErr' = "none"
    /\ UNCHANGED <<configFile, cfg, startErr, dpc, closed, unread, w, wpc, fileOpen, done, mainpc,
                   now, ticks, written, ingested, traceFrom, emitted, sending>>

\* for event := range events: receive, isDuplicate, and unless it is a
\* duplicate enter client.Send.
Deliver ==
    /\ dpc = "ranging"
    /\ mainpc # "exited"
    /\ inflight = <<>>
    /\ events # <<>>
    /\ LET ev == Head(events)
           r  == isDuplicate(ev, lastErrorHash, lastErrorTime, now)
       IN  /\ events' = Tail(events)
           /\ lastErrorHash' = r.lastErrorHash
           /\ lastErrorTime' = r.lastErrorTime
           /\ inflight' = IF r.dup THEN <<>> ELSE <<ev>>
           /\ dlog' = Append(dlog, [ev     |-> ev,
                                    hash   |-> hashError(ev),
                                    at     |-> now,
                                    posted |-> ~r.dup])
    /\ sendErr' = "none"
    /\ UNCHANGED <<configFile, cfg, startErr, dpc, closed, unread, w, wpc, fileOpen, done, mainpc,
                   now, ticks, written, ingested, traceFrom, emitted, sending>>

\* The return of client.Send with a slip: an Incident whose POST failed is
\* put back on the channel.
SendFinishRequeue ==
    /\ mainpc # "exited"
    /\ inflight # <<>>
    /\ \E err \in {"nil", "failed"} :
          /\ sendErr' = err
          /\ events' = IF err = "failed" /\ Len(events) < ChanCap
                       THEN Append(events, inflight[1])
                       ELSE events
    /\ inflight' = <<>>
    /\ UNCHANGED <<configFile, cfg, startErr, dpc, closed, unread, w, wpc, fileOpen, done, mainpc,
                   lastErrorHash, lastErrorTime, now, ticks, written, ingested,
                   traceFrom, emitted, dlog, sending>>

\* The return of client.Send with a slip: an error ends the range loop.
SendFinishStopOnError ==
    /\ mainpc # "exited"
    /\ inflight # <<>>
    /\ \E err \in {"nil", "failed"} :
          /\ sendErr' = err
          /\ dpc' = IF err = "failed" THEN "returned" ELSE dpc
    /\ inflight' = <<>>
    /\ UNCHANGED <<configFile, cfg, startErr, closed, unread, w, wpc, fileOpen, events, done,
                   mainpc, lastErrorHash, lastErrorTime, now, ticks, written, ingested,
                   traceFrom, emitted, dlog, sending>>

\* client.Send returns: nil, or an error that is printed.
SendFinish ==
    /\ mainpc # "exited"
    /\ inflight # <<>>
    /\ \E err \in {"nil", "failed"} : sendErr' = err
    /\ inflight' = <<>>
    /\ UNCHANGED <<configFile, cfg, startErr, dpc, closed, unread, w, wpc, fileOpen, events, done,
                   mainpc, lastErrorHash, lastErrorTime, now, ticks, written, ingested,
                   traceFrom, emitted, dlog, sending>>

(***************************************************************************)
(* main                                                                    *)
(***************************************************************************)

\* main up to the wait for a signal. Without a config file RunSetup asks
\* for the Config and saves it, otherwise LoadConfig reads it; then
\* NewWatcher opens the log file positioned at its end and the two
\* goroutines are started. On an error of any of the three the message
\* goes to stderr and main calls os.Exit(1).
Startup ==
    /\ mainpc = "starting"
    /\ \E lines \in SetupInputs, saveErr \in SaveErrs, openErr \in OpenErrs, seekErr \in SeekErrs :
          /\ ~ConfigExists(configFile) => SetupAnswered(lines)
          /\ LET c  == IF ~ConfigExists(configFile)
                       THEN RunSetup(lines, saveErr)
                       ELSE LoadConfig(configFile)
                 nw == NewWatcher(openErr, seekErr)
             IN  /\ configFile' = IF ~ConfigExists(configFile) /\ c.err = "nil"
                                  THEN [State |-> "ok", Fields |-> c.cfg]
                                  ELSE configFile
                 /\ IF c.err # "nil"
                    THEN /\ startErr' = c.err
                         /\ mainpc' = "exited"
                         /\ UNCHANGED <<cfg, w, wpc, dpc, fileOpen, unread, written>>
                    ELSE IF nw.err # "nil"
                    THEN /\ startErr' = nw.err
                         /\ cfg' = c.cfg
                         /\ mainpc' = "exited"
                         /\ UNCHANGED <<w, wpc, dpc, fileOpen, unread, written>>
                    ELSE /\ startErr' = "nil"
                         /\ cfg' = c.cfg
                         /\ mainpc' = "waiting"
                         /\ w' = nw.w
                         /\ fileOpen' = nw.fileOpen
                         /\ unread' = <<>>
                         /\ written' = <<>>
                         /\ wpc' = "running"
                         /\ dpc' = "ranging"
    /\ UNCHANGED <<closed, events, sending, done, inflight, sendErr, lastErrorHash,
                   lastErrorTime, now, ticks, ingested, traceFrom, emitted, dlog>>

\* <-sig; close(done)
Signal ==
    /\ mainpc = "waiting"
    /\ done' = TRUE
    /\ mainpc' = "shutdown"
    /\ UNCHANGED <<configFile, cfg, startErr, dpc, closed, unread, w, wpc, fileOpen, events,
                   inflight, sendErr, lastErrorHash, lastErrorTime, now, ticks, written,
                   ingested, traceFrom, emitted, dlog, sending>>

\* main returns: the deferred watcher.Close() runs and the process exits.
Exit ==
    /\ mainpc = "shutdown"
    /\ fileOpen' = FALSE
    /\ mainpc' = "exited"
    /\ UNCHANGED <<configFile, cfg, startErr, dpc, closed, unread, w, wpc, events, done, inflight,
                   sendErr, lastErrorHash, lastErrorTime, now, ticks, written, ingested,
                   traceFrom, emitted, dlog, sending>>

(***************************************************************************)
(* Specifications                                                          *)
(***************************************************************************)

\* The pipeline while it runs: no signal arrives and no read fails.
Next ==
    \/ WriteLine
    \/ Watch
    \/ Deliver
    \/ SendFinish
    \/ Tick

Spec == Init /\ [][Next]_vars

\* The Delivery goroutine receives whenever an event is queued and
\* client.Send returns within its timeout: both are weakly fair.
SpecFair == Spec /\ WF_vars(Deliver) /\ WF_vars(SendFinish)

\* The whole process, with a failing read, the signal and the exit of main.
NextShutdown ==
    \/ WriteLine
    \/ Watch
    \/ WatchReadError
    \/ Deliver
    \/ SendFinish
    \/ Tick
    \/ Signal
    \/ Exit

SpecShutdown == Init /\ [][NextShutdown]_vars

\* main runs on once a signal has arrived, the Delivery goroutine receives
\* whenever an event is queued and client.Send returns within its timeout:
\* the three are weakly fair. Nothing obliges a signal to arrive.
SpecShutdownFair ==
    /\ SpecShutdown
    /\ WF_vars(Exit)
    /\ WF_vars(Deliver)
    /\ WF_vars(SendFinish)

\* The pipeline from a channel about to be full, up to the signal: the
\* signal may arrive while Watch is blocked in its send.
NextSignal ==
    \/ WriteLineB
    \/ Watch
    \/ Deliver
    \/ SendFinish
    \/ Signal

SpecSignal == InitFull /\ [][NextSignal]_vars

\* The Tailer and the Reassembler from the start of the process over pairs
\* OOM, ok: the first line of a pair is read in Idle, the second while
\* Collecting, and nothing is received from the channel.
NextPairs ==
    \/ WriteLineB
    \/ Watch

SpecPairs == Init /\ [][NextPairs]_vars

\* The Tailer against a writer that appends a line in several writes.
NextTail ==
    \/ WriteChunk
    \/ Watch

SpecTail == Init /\ [][NextTail]_vars

\* The start of a trace over every Buffer of up to MaxPrefill lines.
NextStart ==
    \/ WriteLineS
    \/ Watch

SpecStart == InitStart /\ [][NextStart]_vars

\* The pipeline up to the POST, with repeated failures and the cooldown.
NextDelivery ==
    \/ WriteLineD
    \/ Watch
    \/ Deliver
    \/ SendFinish
    \/ TickD

SpecDelivery == Init /\ [][NextDelivery]_vars

\* The same pipeline over lines of which two have one hash.
NextCollision ==
    \/ WriteLineK
    \/ Watch
    \/ Deliver
    \/ SendFinish
    \/ TickK

SpecCollision == Init /\ [][NextCollision]_vars

\* The start of the process over every config file, beside a writer of the
\* log file.
NextConfig ==
    \/ Startup
    \/ WriteChunk
    \/ Watch

SpecConfig == InitConfig /\ [][NextConfig]_vars

\* The step of Watch that completes a blocked send.
WatchSends == wpc = "sending" /\ Watch

\* The pipeline from a channel about to be full. The Delivery goroutine
\* receives whenever an event is queued and client.Send returns within its
\* timeout of 5 s: both are weakly fair.
NextBackPressure ==
    \/ WriteLineB
    \/ Watch
    \/ Deliver
    \/ SendFinish

SpecBackPressure ==
    /\ InitFull
    /\ [][NextBackPressure]_vars
    /\ WF_vars(Deliver)
    /\ WF_vars(SendFinish)
    /\ WF_vars(WatchSends)

\* An iteration of Watch whose ReadString meets the end of the file.
WatchAtEOF == wpc = "running" /\ ReadString(unread).err = "EOF" /\ Watch

\* The Tailer and the Reassembler beside the writer and the clock. The
\* loop of Watch sleeps 50 ms at end-of-file and reads again: that
\* iteration is weakly fair.
NextTimeout ==
    \/ WriteLine
    \/ Watch
    \/ Tick

SpecTimeout == Init /\ [][NextTimeout]_vars /\ WF_vars(WatchAtEOF)

\* The pipeline fed with scenario S1.
NextS1 ==
    \/ WriteLineS1
    \/ Watch
    \/ Deliver
    \/ SendFinish
    \/ TickS1

SpecS1 == Init /\ [][NextS1]_vars

\* The pipeline over pauses of the length of the cooldown, with POSTs that
\* last up to their timeout and Incidents that wait in the channel.
NextCooldown ==
    \/ WriteLineD
    \/ Watch
    \/ Deliver
    \/ SendFinish
    \/ TickC

SpecCooldown == Init /\ [][NextCooldown]_vars

\* The Tailer and the Reassembler over a long run of continuation lines
\* with no pause.
NextRun ==
    \/ WriteLineR
    \/ Watch

SpecRun == Init /\ [][NextRun]_vars

\* An iteration of Watch whose ReadString returns a line: the steps of
\* Watch with done open and a whole line unread, the line read and the
\* result of onLine each computed once.
WatchAtLine ==
    /\ wpc = "running"
    /\ mainpc # "exited"
    /\ ~done
    /\ \E rd \in {ReadString(unread)} :
          /\ rd.err = "nil"
          /\ \E r \in {onLine(w, events, rd.line, now)} :
             \E line \in {TrimSpace(rd.line)} :
             \E ing \in {IF line # <<>> THEN Append(ingested, line) ELSE ingested} :
                /\ unread' = rd.rest
                /\ w' = r.w
                /\ events' = r.ch
                /\ sending' = r.sending
                /\ ingested' = ing
                /\ traceFrom' = IF r.w.collectingTrace /\ ~w.collectingTrace
                                THEN Len(ing) - Len(r.w.traceLines) + 1
                                ELSE traceFrom
                /\ emitted' = IF Len(r.ch) > Len(events)
                              THEN Append(emitted, [ev   |-> Last(r.ch),
                                                    from |-> traceFrom,
                                                    to   |-> Len(ing)])
                              ELSE emitted
                /\ wpc' = IF r.sending # <<>> THEN "sending" ELSE wpc
    /\ UNCHANGED <<configFile, cfg, startErr, dpc, closed, fileOpen, done, mainpc, inflight,
                   sendErr, lastErrorHash, lastErrorTime, now, ticks, written, dlog>>

\* The Tailer and the Reassembler beside a writer that does not stop: the
\* loop of Watch iterates, at end-of-file or not, and the next line of the
\* run is written RunGap after the line before it, as far as the run of
\* the model goes.
NextUnending ==
    \/ WriteLineU
    \/ Watch

SpecUnending ==
    /\ Init
    /\ [][NextUnending]_vars
    /\ WF_vars(WatchAtEOF)
    /\ WF_vars(WatchAtLine)
    /\ WF_vars(WriteLineU)

\* The history variables agree with the Watcher's state.
HistoryOK ==
    /\ \A i \in 1..Len(emitted) :
          emitted[i].ev.Context = SubSeq(ingested, emitted[i].from, emitted[i].to)
    /\ w.collectingTrace =>
          w.traceLines = SubSeq(ingested, traceFrom, Len(ingested))
    /\ Len(ingested) <= bufferSize => w.lineBuffer = ingested

(***************************************************************************)
(* Claims                                                                  *)
(***************************************************************************)

Max(a, b) == IF a >= b THEN a ELSE b
Min(a, b) == IF a <= b THEN a ELSE b

\* The newline-terminated lines of bytes, each trimmed, the empty ones
\* left out; bytes after the last newline are no line yet.
RECURSIVE CompleteLines(_)
CompleteLines(bytes) ==
    LET rd == ReadString(bytes)
    IN  IF rd.err = "EOF" THEN <<>>
        ELSE LET line == TrimSpace(rd.line)
             IN  (IF line = <<>> THEN <<>> ELSE <<line>>) \o CompleteLines(rd.rest)

\* The bytes the Tailer has consumed from the file.
Consumed == SubSeq(written, 1, Len(written) - Len(unread))

\* C1: the lines handed to the Reassembler are, in order and each exactly
\* once, the trimmed non-empty newline-terminated lines among the bytes
\* the Tailer has consumed, however the writer's appends and the Tailer's
\* reads interleave.
C1_TailerHandsWholeLines == ingested = CompleteLines(Consumed)

\* C2: every Incident emitted has a context of at least one line and its
\* errorLine is the last line of its context.
C2_ErrorLineIsLastOfContext ==
    \A i \in 1..Len(emitted) :
        LET ev == emitted[i].ev
        IN  /\ Len(ev.Context) >= 1
            /\ ev.Line = ev.Context[Len(ev.Context)]

\* C2 witness: an Incident of several lines has been emitted, and one is
\* still in the channel.
C2_Witness ==
    /\ events # <<>>
    /\ \E i \in 1..Len(emitted) :
          /\ Len(emitted[i].ev.Context) >= 2
          /\ emitted[i].ev.Context[1] # emitted[i].ev.Line

\* C3: an Incident emitted on receipt of a line that is no trace
\* continuation does not hold that line: the last line of every Incident's
\* context, which is its errorLine, is the trigger or a continuation line.
C3_TerminatorNotInIncident ==
    \A i \in 1..Len(emitted) :
        LET ev == emitted[i].ev
        IN  /\ isTraceContinuation(ev.Line)
            /\ isTraceContinuation(ingested[emitted[i].to])

\* The start index of the spec: the oldest trace-start marker among the
\* last 10 Buffer lines, else max(0, len - 10) (1-based here).
OldestStart(buf) ==
    LET lo  == Max(0, Len(buf) - 10) + 1
        win == {i \in lo..Len(buf) : isTraceStart(buf[i])}
    IN  IF win = {} THEN lo
        ELSE CHOOSE i \in win : \A j \in win : i <= j

\* A step of Watch that starts a trace.
StartsTrace == ~w.collectingTrace /\ w'.collectingTrace

\* C4: a trace that starts begins at the oldest trace-start marker among
\* the last 10 Buffer lines, or at max(0, len - 10) when there is none.
C4_StartsAtOldestMarker ==
    [][StartsTrace =>
          w'.traceLines = SubSeq(w'.lineBuffer, OldestStart(w'.lineBuffer),
                                 Len(w'.lineBuffer))]_vars

\* C5: findTraceStart returns no index below max(0, len - 10), so a trace
\* that starts holds at most 10 lines of the Buffer.
C5_StartWithinLastTen ==
    [][StartsTrace =>
          /\ findTraceStart(w'.lineBuffer) >= Max(0, Len(w'.lineBuffer) - 10) + 1
          /\ Len(w'.traceLines) <= 10]_vars

\* C6: no ingested line is in the context of two Incidents: the lines of
\* an Incident all come after the lines of the Incidents emitted before it.
C6_NoLineInTwoIncidents ==
    \A i \in 1..Len(emitted) : \A j \in 1..Len(emitted) :
        i < j => emitted[i].to < emitted[j].from

\* The Delivery goroutine receives an event in this step.
Receives == Len(dlog') = Len(dlog) + 1

\* C7: an Incident received by the Delivery goroutine is not POSTed if and
\* only if its hash is lastErrorHash and less than the cooldown has passed
\* since lastErrorTime; the first Incident of a process is POSTed.
C7_SuppressedIffRecentDuplicate ==
    /\ [][Receives =>
            ((inflight' = <<>>) <=>
                 /\ hashError(Head(events)) = lastErrorHash
                 /\ now - lastErrorTime < cooldownDuration)]_vars
    /\ [](Len(dlog) >= 1 => dlog[1].posted)

\* C7 witness: an Incident was POSTed and the next, of another error line
\* with the same hash, was suppressed inside the cooldown.
C7_Witness ==
    /\ Len(dlog) = 2
    /\ dlog[1].ev.Line # dlog[2].ev.Line
    /\ dlog[1].ev.Context # dlog[2].ev.Context
    /\ dlog[1].hash = dlog[2].hash
    /\ dlog[1].posted /\ ~dlog[2].posted
    /\ dlog[2].at > dlog[1].at
    /\ dlog[2].at - dlog[1].at < cooldownDuration
    /\ lastErrorTime = dlog[1].at

\* C8: of two consecutive Incidents the Delivery goroutine receives that
\* have the same hash and were emitted less than 30 s apart, exactly one
\* is POSTed.
C8_ExactlyOneOfTwoPosted ==
    \A i \in 1..(Len(dlog) - 1) :
        (/\ dlog[i].hash = dlog[i + 1].hash
         /\ dlog[i + 1].ev.Timestamp - dlog[i].ev.Timestamp < cooldownDuration)
        => (dlog[i].posted # dlog[i + 1].posted)

\* C9: an Incident whose hash is that of an Incident POSTed less than 30 s
\* earlier is not POSTed, whatever was processed in between.
C9_RepeatInsideCooldownSuppressed ==
    \A i \in 1..Len(dlog) : \A j \in 1..Len(dlog) :
        (/\ i < j
         /\ dlog[i].posted
         /\ dlog[j].hash = dlog[i].hash
         /\ dlog[j].at - dlog[i].at < cooldownDuration)
        => ~dlog[j].posted

\* The bytes the spec hashes: errorLine and the first min(3, len) lines.
RECURSIVE Concat(_)
Concat(lines) ==
    IF lines = <<>> THEN <<>> ELSE Head(lines) \o Concat(Tail(lines))

SpecHashData(event) ==
    event.Line \o Concat(SubSeq(event.Context, 1, Min(3, Len(event.Context))))

\* C10: the hash is taken over errorLine and the first min(3, len) context
\* lines whatever the length of the context, so two Incidents of the same
\* errorLine whose contexts of up to 3 lines differ have different hashes.
C10_HashCoversShortContexts ==
    /\ \A i \in 1..Len(dlog) : hashData(dlog[i].ev) = SpecHashData(dlog[i].ev)
    /\ \A i \in 1..Len(dlog) : \A j \in 1..Len(dlog) :
          (/\ dlog[i].ev.Line = dlog[j].ev.Line
           /\ Len(dlog[i].ev.Context) <= 3
           /\ Len(dlog[j].ev.Context) <= 3
           /\ dlog[i].ev.Context # dlog[j].ev.Context)
          => dlog[i].hash # dlog[j].hash

\* The messages of Validate.
ValidateErrors == {"log_path is required", "server_url is required", "repo_url is required"}

\* C18: once main has loaded a config file that is read and unmarshalled,
\* it has met no error of Validate if and only if log_path, server_url and
\* repo_url are all non-empty; otherwise the error is the message
\* "<field> is required" of the first empty field in that order. On that
\* error, as on every error at the start, the process has exited and
\* neither the Watch goroutine nor the Delivery goroutine was started.
C18_ValidateTotal ==
    LET c == configFile.Fields
    IN  /\ (startErr # "none" /\ configFile.State = "ok") =>
              /\ (startErr \notin ValidateErrors) <=>
                     (c.LogPath # <<>> /\ c.ServerURL # <<>> /\ c.RepoURL # <<>>)
              /\ c.LogPath = <<>> => startErr = "log_path is required"
              /\ (c.LogPath # <<>> /\ c.ServerURL = <<>>) => startErr = "server_url is required"
              /\ (c.LogPath # <<>> /\ c.ServerURL # <<>> /\ c.RepoURL = <<>>)
                    => startErr = "repo_url is required"
        /\ startErr \notin {"none", "nil"} =>
              /\ mainpc = "exited"
              /\ wpc = "notstarted"
              /\ dpc = "notstarted"
              /\ ~fileOpen
              /\ ingested = <<>>

\* C18 witness: a config file with two empty fields was rejected with the
\* message of the first of them, and lines written to the log file since
\* are read by no Tailer.
C18_Witness ==
    /\ configFile.State = "ok"
    /\ configFile.Fields.LogPath # <<>>
    /\ configFile.Fields.ServerURL = <<>>
    /\ configFile.Fields.RepoURL = <<>>
    /\ startErr = "server_url is required"
    /\ PendingLines(unread) >= 1

\* client.Send returns an error in this step.
FailedPost == inflight # <<>> /\ inflight' = <<>> /\ sendErr' = "failed"

\* C11: a POST that fails leaves the suppressor as it was before the
\* Incident was dequeued, a state under which that Incident was no
\* duplicate: an identical Incident processed when the POST has failed is
\* not suppressed.
C11_FailedPostLeavesSuppressor ==
    [][FailedPost =>
          ~isDuplicate(inflight[1], lastErrorHash', lastErrorTime', now').dup]_vars

\* C12: at most one POST is in flight, the Incidents are received, and so
\* POSTed, in the order in which they were emitted, none is skipped, and
\* that order is the order in the file of their last lines.
C12_PostsSequentialInEmitOrder ==
    /\ Len(inflight) <= 1
    /\ inflight # <<>> =>
          /\ dlog # <<>>
          /\ Last(dlog).posted
          /\ inflight[1] = Last(dlog).ev
    /\ Len(dlog) + Len(events) = Len(emitted)
    /\ \A i \in 1..Len(dlog) : dlog[i].ev = emitted[i].ev
    /\ \A k \in 1..Len(events) : events[k] = emitted[Len(dlog) + k].ev
    /\ \A i \in 1..Len(dlog) : \A j \in 1..Len(dlog) :
          i < j => dlog[i].at <= dlog[j].at
    /\ \A i \in 1..Len(emitted) : \A j \in 1..Len(emitted) :
          i < j => emitted[i].to < emitted[j].to

\* C12 witness: two different Incidents were POSTed one after the other,
\* the second emitted by the time the first was received and in flight now.
C12_Witness ==
    /\ Len(dlog) = 2
    /\ dlog[1].posted /\ dlog[2].posted
    /\ dlog[1].ev # dlog[2].ev
    /\ dlog[1].at >= dlog[2].ev.Timestamp
    /\ inflight = <<dlog[2].ev>>

\* The Reassembler leaves Collecting in this step: emitTrace ran.
Emits == w.collectingTrace /\ ~w'.collectingTrace

\* Watch is blocked in the send of emitTrace: the channel is full.
BlockedOnSend ==
    /\ wpc = "sending"
    /\ sending # <<>>
    /\ Len(events) = ChanCap

\* C13: the channel never holds more than 100 Incidents; Watch is blocked
\* in its send exactly while it has an Incident to send, which happens
\* only at a full channel, and the Watcher and the Incident stay as they
\* are until the send is done; an Incident the Reassembler emits is
\* appended to the channel whatever the channel holds, and the channel
\* changes only by that append or by the Delivery goroutine receiving its
\* oldest Incident; a full channel gets a free slot, a blocked send is
\* done, and every Incident emitted is eventually received.
C13_BackPressureLosesNothing ==
    /\ [](Len(events) <= ChanCap)
    /\ []((wpc = "sending") <=> (sending # <<>>))
    /\ [][(wpc # "sending" /\ wpc' = "sending") => Len(events) = ChanCap]_vars
    /\ [][(wpc = "sending" /\ wpc' = "sending") => (w' = w /\ sending' = sending)]_vars
    /\ [][Emits =>
            /\ Len(events') = Len(events) + 1
            /\ SubSeq(events', 1, Len(events)) = events
            /\ Last(events').Line = Last(ingested')
            /\ Last(events').Context = SubSeq(ingested', traceFrom, Len(ingested'))
            /\ Last(events').Timestamp <= now
            /\ emitted' = Append(emitted, [ev   |-> Last(events'),
                                           from |-> traceFrom,
                                           to   |-> Len(ingested')])]_vars
    /\ [][events' # events =>
            \/ /\ Len(events') = Len(events) + 1
               /\ SubSeq(events', 1, Len(events)) = events
            \/ /\ events' = Tail(events)
               /\ Len(dlog') = Len(dlog) + 1
               /\ Last(dlog').ev = Head(events)]_vars
    /\ (Len(events) = ChanCap) ~> (Len(events) < ChanCap)
    /\ BlockedOnSend ~> (wpc = "running")
    /\ \A n \in {ChanCap - 1, ChanCap, ChanCap + 1} :
          (Len(emitted) >= n) ~> (Len(dlog) >= n)

\* C13 witness: the channel holds 100 Incidents and the Reassembler, with
\* the line that ends a further trace read and appended, is blocked on its
\* send.
C13_Witness ==
    /\ BlockedOnSend
    /\ w.collectingTrace
    /\ unread = <<>>
    /\ Last(w.traceLines) = LineOk
    /\ sending[1].Context = w.traceLines
    /\ Len(emitted) = ChanCap

\* C14: once the signal has closed done and Watch has returned at its loop
\* check, the events channel is closed, which is what ends the Delivery
\* goroutine's range loop.
C14_TailerClosesChannel == (done /\ wpc = "returned") => closed

\* C15: when the process has exited no POST was in flight and no Incident
\* was left in the channel: what was emitted before the exit was received
\* and its POST finished.
C15_ExitAfterDrain == mainpc = "exited" => (inflight = <<>> /\ events = <<>>)

\* C16: once the signal has been received no POST is started, and the
\* process exits.
C16_NoPostAfterSignal ==
    /\ [][done => ~(inflight = <<>> /\ inflight' # <<>>)]_vars
    /\ done ~> (mainpc = "exited")

\* Watch has returned the error of a failed read.
ReadFailed == wpc = "failed"

\* C17: when a read has failed with an error other than io.EOF and Watch
\* has returned it, the process exits, without a signal.
C17_ReadErrorEndsProcess == ReadFailed ~> (mainpc = "exited")

\* C19: client.Send is entered only for the Incident received in that
\* step, once; when it returns, with an error or not, no POST is in flight,
\* the channel holds what it held and nothing more is recorded as received:
\* the Incident is neither sent again nor queued again.
C19_AtMostOnePostPerIncident ==
    /\ [][(inflight' # inflight /\ inflight' # <<>>) =>
            /\ inflight = <<>>
            /\ Receives
            /\ inflight' = <<Head(events)>>
            /\ events' = Tail(events)]_vars
    /\ [][(inflight # <<>> /\ sendErr' # sendErr) =>
            /\ inflight' = <<>>
            /\ events' = events
            /\ dlog' = dlog]_vars

\* C19 witness: the POST of the only Incident failed, and the Delivery
\* goroutine is idle with an empty channel.
C19_Witness ==
    /\ sendErr = "failed"
    /\ inflight = <<>>
    /\ events = <<>>
    /\ Len(emitted) = 1
    /\ Len(dlog) = 1 /\ dlog[1].posted

\* C20: when the Reassembler is Collecting, the clock is past traceTimeout
\* and no line is waiting to be read, then, unless a line arrives, it
\* leaves Collecting; and when it leaves Collecting with no line read, the
\* clock is past traceTimeout and the Incident of the lines collected is
\* appended to the channel.
C20_TimeoutEmitsWithoutLine ==
    /\ (w.collectingTrace /\ now > w.traceTimeout /\ unread = <<>>)
          ~> (~w.collectingTrace \/ unread # <<>>)
    /\ [][(w.collectingTrace /\ ~w'.collectingTrace /\ ingested' = ingested) =>
            /\ now > w.traceTimeout
            /\ events' = Append(events, [Line      |-> Last(w.traceLines),
                                         Timestamp |-> now,
                                         Context   |-> w.traceLines])]_vars

\* C20 witness: the Reassembler is Idle after an Incident that ends with a
\* line that continues a trace, emitted when the clock had advanced: no
\* line ended it.
C20_Witness ==
    /\ ~w.collectingTrace
    /\ \E i \in 1..Len(emitted) :
          /\ isTraceContinuation(emitted[i].ev.Line)
          /\ emitted[i].ev.Timestamp > traceDuration

\* The lines of sub, in order, are among the lines of ctx.
RECURSIVE InOrder(_, _)
InOrder(sub, ctx) ==
    IF sub = <<>> THEN TRUE
    ELSE IF ctx = <<>> THEN FALSE
    ELSE IF Head(sub) = Head(ctx) THEN InOrder(Tail(sub), Tail(ctx))
    ELSE InOrder(sub, Tail(ctx))

\* The lines of the traceback of S1 as the Reassembler holds them, trimmed.
S1TracebackTrimmed == [i \in 1..Len(S1Traceback) |-> TrimSpace(S1Traceback[i])]

\* Every line of S1 was read, the trace it left was emitted and every
\* Incident was received and its POST has returned.
S1Settled ==
    /\ Len(ingested) = Len(S1Lines)
    /\ ~w.collectingTrace
    /\ events = <<>>
    /\ inflight = <<>>

\* C21: scenario S1 never yields a second Incident, and once it is settled
\* exactly one Incident was emitted and POSTed, its errorLine the last line
\* of the traceback and its context holding the seven traceback lines in
\* order.
C21_S1OneIncidentOnePost ==
    /\ Len(emitted) <= 1
    /\ S1Settled =>
          /\ Len(emitted) = 1
          /\ Cardinality({i \in 1..Len(dlog) : dlog[i].posted}) = 1
          /\ emitted[1].ev.Line = S1Traceback[Len(S1Traceback)]
          /\ InOrder(S1TracebackTrimmed, emitted[1].ev.Context)

\* The line as it is in the file begins with four spaces or a tab.
Indented(raw) ==
    \/ HasPrefix(raw, <<" "," "," "," ">>)
    \/ HasPrefix(raw, <<"\t">>)

\* Watch reads a line in this step and hands it to the Reassembler.
IngestsLine == Len(ingested') = Len(ingested) + 1

\* C22: a line that begins in the file with four spaces or a tab and is
\* read while the Reassembler is Collecting is appended to the Accumulator,
\* traceTimeout is reset and the trace is not ended: no Incident is
\* emitted and the Reassembler is still Collecting.
C22_IndentedFrameContinues ==
    [][(w.collectingTrace /\ IngestsLine /\ Indented(ReadString(unread).line)) =>
          /\ w'.collectingTrace
          /\ w'.traceLines = Append(w.traceLines, Last(ingested'))
          /\ w'.traceTimeout = now + traceDuration
          /\ emitted' = emitted]_vars

\* C23: of two consecutive Incidents of the same hash that were emitted at
\* least 30 s apart, the second is POSTed as the first was, however long
\* Incidents waited in the channel and however long earlier POSTs took.
\* (Taken for the pairs whose first Incident was POSTed.)
C23_RepeatAfterCooldownPosted ==
    \A i \in 1..(Len(dlog) - 1) :
        (/\ dlog[i].hash = dlog[i + 1].hash
         /\ dlog[i + 1].ev.Timestamp - dlog[i].ev.Timestamp >= cooldownDuration
         /\ dlog[i].posted)
        => dlog[i + 1].posted

\* C24: the Accumulator is capped: however long an unbroken run of
\* continuation lines is, the Accumulator never holds all of its lines
\* (here a run of MaxRun lines, so a cap of MaxRun - 1 lines or less).
C24_AccumulatorCapped == Len(w.traceLines) <= MaxRun - 1

\* C26: the Buffer never holds more than 50 lines, it holds the lines
\* pushed while they are 50 or fewer, and a push onto a Buffer of 50 lines
\* leaves its last 49 lines, in their order, followed by the new line.
C26_BufferEvictsOldest ==
    /\ [](Len(w.lineBuffer) <= bufferSize)
    /\ [](Len(w.lineBuffer) = Min(bufferSize, Len(ingested)))
    /\ [][(IngestsLine /\ Len(w.lineBuffer) = bufferSize) =>
            w'.lineBuffer = Append(Tail(w.lineBuffer), Last(ingested'))]_vars

\* C26 witness: more than 50 lines were pushed, the Buffer holds 50 and
\* its oldest line is not the first line pushed nor equal to its newest.
C26_Witness ==
    /\ Len(ingested) > bufferSize + 1
    /\ Len(w.lineBuffer) = bufferSize
    /\ Head(w.lineBuffer) # ingested[1]
    /\ Head(w.lineBuffer) # Last(w.lineBuffer)
    /\ w.lineBuffer = SubSeq(ingested, Len(ingested) - bufferSize + 1, Len(ingested))

\* C25: when client.Send returns an error the Delivery goroutine is still
\* ranging over the channel and the Watch goroutine is still running, with
\* the channel and the Watcher untouched; an Incident queued when a POST
\* has failed is received, and every Incident emitted is received, failed
\* POSTs or not.
C25_DeliveryFailureSwallowed ==
    /\ [][FailedPost =>
            /\ dpc' = "ranging"
            /\ wpc' = "running"
            /\ events' = events
            /\ w' = w]_vars
    /\ [](sendErr = "failed" => (dpc = "ranging" /\ wpc = "running"))
    /\ (sendErr = "failed" /\ events # <<>>) ~> (sendErr # "failed")
    /\ \A n \in 1..MaxWrites : (Len(emitted) >= n) ~> (Len(dlog) >= n)

\* C25 witness: a POST has failed and an Incident that is no duplicate
\* waits in the channel.
C25_Witness ==
    /\ sendErr = "failed"
    /\ events # <<>>
    /\ ~isDuplicate(Head(events), lastErrorHash, lastErrorTime, now).dup

\* C27: the Accumulator holds at least one line while the Reassembler is
\* Collecting and none while it is Idle.
C27_AccumulatorNonEmptyIffCollecting ==
    /\ w.collectingTrace => Len(w.traceLines) >= 1
    /\ ~w.collectingTrace => w.traceLines = <<>>

\* C27 witness: an Incident was emitted, which cleared the Accumulator,
\* and the Reassembler is Collecting the next trace.
C27_Witness ==
    /\ Len(emitted) >= 1
    /\ w.collectingTrace
    /\ Len(w.traceLines) >= 1

\* C28: the step of Watch that reads, while Collecting, a line that is no
\* trace continuation emits exactly one Incident, stamped with the time of
\* that step whatever traceTimeout is, and leaves the Reassembler Idle.
C28_NonContinuationFinalizes ==
    [][(w.collectingTrace /\ IngestsLine /\ ~isTraceContinuation(Last(ingested'))) =>
          /\ Len(emitted') = Len(emitted) + 1
          /\ Len(events') = Len(events) + 1
          /\ Last(events') = Last(emitted').ev
          /\ Last(emitted').ev.Timestamp = now
          /\ ~w'.collectingTrace]_vars

\* C28 witness: the Reassembler is Idle after an Incident that a line that
\* is no trace continuation ended before the timeout of its trace.
C28_Witness ==
    /\ ~w.collectingTrace
    /\ emitted # <<>>
    /\ ~isTraceContinuation(Last(emitted).ev.Line)
    /\ Last(emitted).ev.Timestamp < w.traceTimeout

\* C29: with a clock that does not go back, traceTimeout is assigned only
\* by a step that leaves the Reassembler Collecting (the start of a trace
\* or a continuation line), and never to an earlier value: within a trace
\* it only advances.
C29_TimeoutOnlyAdvances ==
    /\ [][now' >= now]_vars
    /\ [][w'.traceTimeout >= w.traceTimeout]_vars
    /\ [][w'.traceTimeout # w.traceTimeout =>
            /\ w'.collectingTrace
            /\ IngestsLine
            /\ w'.traceTimeout = now + traceDuration]_vars

\* C29 witness: the first trace is being collected, a line was read after
\* the error line that started it, and traceTimeout was assigned after the
\* clock had advanced.
C29_Witness ==
    /\ w.collectingTrace
    /\ emitted = <<>>
    /\ \E i \in 1..(Len(ingested) - 1) : isErrorLine(ingested[i])
    /\ now > 0
    /\ w.traceTimeout = now + traceDuration

\* Lines to classify: those the writers append, the lines of scenario S1
\* trimmed, and every error pattern taken as a line.
ClassifiedLines ==
    RawLines \cup {TrimSpace(S1Lines[i]) : i \in 1..Len(S1Lines)}
             \cup {errorPatterns[i] : i \in 1..Len(errorPatterns)}

\* C30: a line that satisfies isErrorLine satisfies isTraceContinuation;
\* and the step of Watch that reads an error line while Collecting appends
\* it to the Accumulator and resets traceTimeout, emits nothing and leaves
\* the Reassembler Collecting the same trace.
C30_ErrorLineContinuesTrace ==
    /\ \A l \in ClassifiedLines : isErrorLine(l) => isTraceContinuation(l)
    /\ [](\A i \in 1..Len(ingested) :
             isErrorLine(ingested[i]) => isTraceContinuation(ingested[i]))
    /\ [][(w.collectingTrace /\ IngestsLine /\ isErrorLine(Last(ingested'))) =>
            /\ w'.collectingTrace
            /\ w'.traceLines = Append(w.traceLines, Last(ingested'))
            /\ w'.traceTimeout = now + traceDuration
            /\ emitted' = emitted
            /\ traceFrom' = traceFrom]_vars

\* C30 witness: the trace being collected ends with two error lines that
\* begin with no continuation marker, the second read after the clock
\* advanced.
C30_Witness ==
    /\ w.collectingTrace
    /\ Len(w.traceLines) >= 2
    /\ LET a == w.traceLines[Len(w.traceLines) - 1]
           b == Last(w.traceLines)
       IN  /\ a \in {LineOOM, LinePanic} /\ isErrorLine(a)
           /\ b \in {LineOOM, LinePanic} /\ isErrorLine(b)
    /\ now > 0
    /\ w.traceTimeout = now + traceDuration

\* C31: once Watch has found done closed no Incident is emitted: from the
\* signal on, a step of a Watch that is not blocked in a send emits
\* nothing and puts nothing in the channel, the step in which Watch finds
\* done closed returns with the Watcher untouched, and once Watch has
\* returned the Accumulator it left is never emitted. A send that was
\* blocked when the signal arrived is of a trace that was complete before
\* the signal: it is done with the Incident it held, and the Accumulator
\* is empty after it.
C31_PartialTraceDiscarded ==
    /\ [][(done /\ wpc # "sending") =>
            (emitted' = emitted /\ sending' = sending /\ Len(events') <= Len(events))]_vars
    /\ [][(done /\ wpc = "running" /\ wpc' # wpc) =>
            (wpc' = "returned" /\ w' = w)]_vars
    /\ [][wpc = "returned" => (wpc' = wpc /\ w' = w)]_vars
    /\ [][(done /\ wpc = "sending") =>
            /\ sending' \in {sending, <<>>}
            /\ emitted' # emitted =>
                  /\ emitted' = Append(emitted, [ev   |-> sending[1],
                                                 from |-> traceFrom,
                                                 to   |-> Len(ingested)])
                  /\ w'.traceLines = <<>>
                  /\ ~w'.collectingTrace]_vars

\* C31 witness: Watch has returned on the signal with a trace in the
\* Accumulator that ends with the error line read last, and no Incident
\* was emitted that holds that line.
C31_Witness ==
    /\ done
    /\ wpc = "returned"
    /\ w.collectingTrace
    /\ w.traceLines = SubSeq(ingested, traceFrom, Len(ingested))
    /\ Last(w.traceLines) = LineOOM
    /\ \A i \in 1..Len(emitted) : emitted[i].to < Len(ingested)

\* C32: the step that suppresses an Incident leaves lastErrorHash and
\* lastErrorTime as they were; they change only in the step that receives
\* an Incident that is POSTed, to its hash and the time of that step; so
\* an Incident of the hash of the last POSTed one, received 30 s or more
\* after that one, is POSTed, whatever was suppressed in between.
C32_SuppressedLeavesSuppressor ==
    /\ [][(Receives /\ ~Last(dlog').posted) =>
            (lastErrorHash' = lastErrorHash /\ lastErrorTime' = lastErrorTime)]_vars
    /\ [][(lastErrorHash' # lastErrorHash \/ lastErrorTime' # lastErrorTime) =>
            /\ Receives
            /\ Last(dlog').posted
            /\ lastErrorHash' = Last(dlog').hash
            /\ lastErrorTime' = now]_vars
    /\ [](\A i \in 1..Len(dlog) : \A j \in 1..Len(dlog) :
             (/\ i < j
              /\ dlog[i].posted
              /\ \A k \in (i + 1)..(j - 1) : ~dlog[k].posted
              /\ dlog[j].hash = dlog[i].hash
              /\ dlog[j].at - dlog[i].at >= cooldownDuration)
             => dlog[j].posted)

\* C32 witness: three Incidents of one hash in a row, half a cooldown
\* apart: the first POSTed, the second suppressed, the third POSTed less
\* than 30 s after the suppressed one, and lastErrorTime is its time.
C32_Witness ==
    \E i \in 1..(Len(dlog) - 2) :
        /\ dlog[i].hash = dlog[i + 1].hash /\ dlog[i].hash = dlog[i + 2].hash
        /\ dlog[i].posted /\ ~dlog[i + 1].posted /\ dlog[i + 2].posted
        /\ dlog[i + 2].at - dlog[i + 1].at < cooldownDuration
        /\ dlog[i + 2].at - dlog[i].at >= cooldownDuration
        /\ lastErrorTime = dlog[i + 2].at

\* C33: whenever Watch has returned, on the signal or with a read error,
\* the Watcher's file handle is closed.
C33_HandleClosedWhenTailerReturned ==
    wpc \in {"returned", "failed"} => ~fileOpen

\* C34: the step that closes the Watcher's file handle is taken only when
\* Watch has returned: the handle is not closed under a running Watch.
C34_CloseAfterWatchReturned ==
    [][(fileOpen /\ ~fileOpen') => wpc \in {"returned", "failed"}]_vars

\* The lines among lines that satisfy isErrorLine.
ErrorLinesIn(lines) == {j \in 1..Len(lines) : isErrorLine(lines[j])}

\* C36: the context of every Incident emitted holds a line that satisfies
\* isErrorLine; and while no line ingested satisfies it, no trace was
\* started, no Incident was emitted and nothing was received or POSTed.
C36_IncidentHoldsErrorLine ==
    /\ \A k \in 1..Len(emitted) : ErrorLinesIn(emitted[k].ev.Context) # {}
    /\ ErrorLinesIn(ingested) = {} =>
          /\ ~w.collectingTrace
          /\ emitted = <<>>
          /\ events = <<>>
          /\ dlog = <<>>
          /\ inflight = <<>>

\* C36 witness: an Incident of three lines of which only the second is an
\* error line, the first a trace-start marker taken from the Buffer and
\* the last the line that ended the trace, was POSTed.
C36_Witness ==
    \E k \in 1..Len(dlog) :
        /\ dlog[k].posted
        /\ Len(dlog[k].ev.Context) = 3
        /\ ErrorLinesIn(dlog[k].ev.Context) = {2}
        /\ isTraceStart(dlog[k].ev.Context[1])

\* C37: the Buffer is the last min(50, n) of the n lines ingested, in
\* order, whether they were read in Idle or while Collecting.
C37_BufferIsLastFiftyIngested ==
    LET n == Len(ingested)
    IN  w.lineBuffer = SubSeq(ingested, n - Min(bufferSize, n) + 1, n)

\* C37 witness: more than 50 lines were ingested, half of them while
\* Collecting; the newest line of the Buffer was read while Collecting and
\* ended a trace, the one before it was read in Idle, after the trace
\* before had ended, and started it.
C37_Witness ==
    /\ Len(ingested) > bufferSize
    /\ Len(w.lineBuffer) = bufferSize
    /\ ~w.collectingTrace
    /\ Len(emitted) >= 2
    /\ Last(emitted).to = Len(ingested)
    /\ emitted[Len(emitted) - 1].to = Len(ingested) - 2
    /\ Last(w.lineBuffer) = Last(emitted).ev.Line

\* Line i of the lines ingested is in the context of an emitted Incident.
Covered(i) ==
    \E k \in 1..Len(emitted) :
        /\ emitted[k].from <= i
        /\ i <= emitted[k].to
        /\ emitted[k].ev.Context[i - emitted[k].from + 1] = ingested[i]

\* Line i is in the trace being collected.
InTrace(i) ==
    /\ w.collectingTrace
    /\ traceFrom <= i
    /\ w.traceLines[i - traceFrom + 1] = ingested[i]

\* C35: an ingested line that satisfies isErrorLine is in the context of
\* an emitted Incident or in the trace being collected, it comes to be in
\* the context of an emitted Incident, and every trace is emitted, when
\* the process is not shut down and the channel has room.
C35_ErrorLineReachesIncident ==
    /\ [](\A i \in ErrorLinesIn(ingested) : Covered(i) \/ InTrace(i))
    /\ \A i \in 1..MaxWritesU :
          (Len(ingested) >= i /\ isErrorLine(ingested[i])) ~> Covered(i)
    /\ w.collectingTrace ~> ~w.collectingTrace
====
